---- MODULE Spec2Model ----
(***************************************************************************)
(* FastGraphics: a direct-framebuffer 2D rendering engine with four fixed  *)
(* rotations, a primitive rasterizer, an 8x8 glyph renderer and a text     *)
(* cursor / word-wrap engine.  The engine's static fields are the          *)
(* variables; every public call is one action (calls run to completion).   *)
(*                                                                         *)
(* The physical panel is scaled down (Wp x Hp instead of 800 x 480) so     *)
(* that the framebuffer can be enumerated; the worked examples of the      *)
(* 800 x 480 panel are evaluated on the parametrised operators.            *)
(***************************************************************************)
EXTENDS Integers, Sequences, FiniteSets, TLC

\* ---------------------------------------------------------------- bounds
Wp == 7
Hp == 5
MaxOps == 2
MaxRadius == 3
LineFuel == 40
MaxFillRadius == 6
MaxChain == 6

\* ------------------------------------------------------ program constants
PANEL_H_RES == 800
PANEL_V_RES == 480

LCD_H_RES == Wp
LCD_V_RES == Hp

ROTATION_0 == 0
ROTATION_90 == 1
ROTATION_180 == 2
ROTATION_270 == 3
ScreenRotation == {ROTATION_0, ROTATION_90, ROTATION_180, ROTATION_270}

\* the demo application's constants
MAX_SCENES == 5
INTERACTION_DEBOUNCE == 500
MAX_ROTATION_DEMOS == 4
LOOP_DELAY == 30
demoRotations == <<ROTATION_0, ROTATION_90, ROTATION_180, ROTATION_270>>

COLOR_BLACK == 0
COLOR_WHITE == 65535
COLOR_RED == 63488
Colors == {COLOR_BLACK, COLOR_WHITE, COLOR_RED}

font8x8_basic == <<
    <<0, 0, 0, 0, 0, 0, 0, 0>>,
    <<0, 0, 0, 0, 0, 0, 0, 0>>,
    <<0, 0, 0, 0, 0, 0, 0, 0>>,
    <<0, 0, 0, 0, 0, 0, 0, 0>>,
    <<0, 0, 0, 0, 0, 0, 0, 0>>,
    <<0, 0, 0, 0, 0, 0, 0, 0>>,
    <<0, 0, 0, 0, 0, 0, 0, 0>>,
    <<0, 0, 0, 0, 0, 0, 0, 0>>,
    <<0, 0, 0, 0, 0, 0, 0, 0>>,
    <<0, 0, 0, 0, 0, 0, 0, 0>>,
    <<0, 0, 0, 0, 0, 0, 0, 0>>,
    <<0, 0, 0, 0, 0, 0, 0, 0>>,
    <<0, 0, 0, 0, 0, 0, 0, 0>>,
    <<0, 0, 0, 0, 0, 0, 0, 0>>,
    <<0, 0, 0, 0, 0, 0, 0, 0>>,
    <<0, 0, 0, 0, 0, 0, 0, 0>>,
    <<0, 0, 0, 0, 0, 0, 0, 0>>,
    <<0, 0, 0, 0, 0, 0, 0, 0>>,
    <<0, 0, 0, 0, 0, 0, 0, 0>>,
    <<0, 0, 0, 0, 0, 0, 0, 0>>,
    <<0, 0, 0, 0, 0, 0, 0, 0>>,
    <<0, 0, 0, 0, 0, 0, 0, 0>>,
    <<0, 0, 0, 0, 0, 0, 0, 0>>,
    <<0, 0, 0, 0, 0, 0, 0, 0>>,
    <<0, 0, 0, 0, 0, 0, 0, 0>>,
    <<0, 0, 0, 0, 0, 0, 0, 0>>,
    <<0, 0, 0, 0, 0, 0, 0, 0>>,
    <<0, 0, 0, 0, 0, 0, 0, 0>>,
    <<0, 0, 0, 0, 0, 0, 0, 0>>,
    <<0, 0, 0, 0, 0, 0, 0, 0>>,
    <<0, 0, 0, 0, 0, 0, 0, 0>>,
    <<0, 0, 0, 0, 0, 0, 0, 0>>,
    <<0, 0, 0, 0, 0, 0, 0, 0>>,
    <<24, 60, 60, 24, 24, 0, 24, 0>>,
    <<54, 54, 0, 0, 0, 0, 0, 0>>,
    <<54, 54, 127, 54, 127, 54, 54, 0>>,
    <<12, 62, 3, 30, 48, 31, 12, 0>>,
    <<0, 99, 51, 24, 12, 102, 99, 0>>,
    <<28, 54, 28, 110, 59, 51, 110, 0>>,
    <<6, 6, 3, 0, 0, 0, 0, 0>>,
    <<24, 12, 6, 6, 6, 12, 24, 0>>,
    <<6, 12, 24, 24, 24, 12, 6, 0>>,
    <<0, 102, 60, 255, 60, 102, 0, 0>>,
    <<0, 12, 12, 63, 12, 12, 0, 0>>,
    <<0, 0, 0, 0, 0, 12, 6, 0>>,
    <<0, 0, 0, 63, 0, 0, 0, 0>>,
    <<0, 0, 0, 0, 0, 12, 12, 0>>,
    <<96, 48, 24, 12, 6, 3, 1, 0>>,
    <<62, 99, 115, 123, 111, 103, 62, 0>>,
    <<12, 14, 12, 12, 12, 12, 63, 0>>,
    <<30, 51, 48, 28, 6, 51, 63, 0>>,
    <<30, 51, 48, 28, 48, 51, 30, 0>>,
    <<56, 60, 54, 51, 127, 48, 120, 0>>,
    <<63, 3, 31, 48, 48, 51, 30, 0>>,
    <<28, 6, 3, 31, 51, 51, 30, 0>>,
    <<63, 51, 48, 24, 12, 12, 12, 0>>,
    <<30, 51, 51, 30, 51, 51, 30, 0>>,
    <<30, 51, 51, 62, 48, 24, 14, 0>>,
    <<0, 12, 12, 0, 0, 12, 12, 0>>,
    <<0, 12, 12, 0, 0, 12, 6, 0>>,
    <<24, 12, 6, 3, 6, 12, 24, 0>>,
    <<0, 0, 63, 0, 0, 63, 0, 0>>,
    <<6, 12, 24, 48, 24, 12, 6, 0>>,
    <<30, 51, 48, 24, 12, 0, 12, 0>>,
    <<62, 99, 123, 123, 123, 3, 30, 0>>,
    <<12, 30, 51, 51, 63, 51, 51, 0>>,
    <<63, 102, 102, 62, 102, 102, 63, 0>>,
    <<60, 102, 3, 3, 3, 102, 60, 0>>,
    <<31, 54, 102, 102, 102, 54, 31, 0>>,
    <<127, 70, 22, 30, 22, 70, 127, 0>>,
    <<127, 70, 22, 30, 22, 6, 15, 0>>,
    <<60, 102, 3, 3, 115, 102, 124, 0>>,
    <<51, 51, 51, 63, 51, 51, 51, 0>>,
    <<30, 12, 12, 12, 12, 12, 30, 0>>,
    <<120, 48, 48, 48, 51, 51, 30, 0>>,
    <<103, 102, 54, 30, 54, 102, 103, 0>>,
    <<15, 6, 6, 6, 70, 102, 127, 0>>,
    <<99, 119, 127, 127, 107, 99, 99, 0>>,
    <<99, 103, 111, 123, 115, 99, 99, 0>>,
    <<28, 54, 99, 99, 99, 54, 28, 0>>,
    <<63, 102, 102, 62, 6, 6, 15, 0>>,
    <<30, 51, 51, 51, 59, 30, 56, 0>>,
    <<63, 102, 102, 62, 54, 102, 103, 0>>,
    <<30, 51, 7, 14, 56, 51, 30, 0>>,
    <<63, 45, 12, 12, 12, 12, 30, 0>>,
    <<51, 51, 51, 51, 51, 51, 63, 0>>,
    <<51, 51, 51, 51, 51, 30, 12, 0>>,
    <<99, 99, 99, 107, 127, 119, 99, 0>>,
    <<99, 99, 54, 28, 28, 54, 99, 0>>,
    <<51, 51, 51, 30, 12, 12, 30, 0>>,
    <<127, 99, 49, 24, 76, 102, 127, 0>>,
    <<30, 6, 6, 6, 6, 6, 30, 0>>,
    <<3, 6, 12, 24, 48, 96, 64, 0>>,
    <<30, 24, 24, 24, 24, 24, 30, 0>>,
    <<8, 28, 54, 99, 0, 0, 0, 0>>,
    <<0, 0, 0, 0, 0, 0, 0, 255>>,
    <<12, 12, 24, 0, 0, 0, 0, 0>>,
    <<0, 0, 30, 48, 62, 51, 110, 0>>,
    <<7, 6, 6, 62, 102, 102, 59, 0>>,
    <<0, 0, 30, 51, 3, 51, 30, 0>>,
    <<56, 48, 48, 62, 51, 51, 110, 0>>,
    <<0, 0, 30, 51, 63, 3, 30, 0>>,
    <<28, 54, 6, 15, 6, 6, 15, 0>>,
    <<0, 0, 110, 51, 51, 62, 48, 31>>,
    <<7, 6, 54, 110, 102, 102, 103, 0>>,
    <<12, 0, 14, 12, 12, 12, 30, 0>>,
    <<48, 0, 48, 48, 48, 51, 51, 30>>,
    <<7, 6, 102, 54, 30, 54, 103, 0>>,
    <<14, 12, 12, 12, 12, 12, 30, 0>>,
    <<0, 0, 51, 127, 127, 107, 99, 0>>,
    <<0, 0, 31, 51, 51, 51, 51, 0>>,
    <<0, 0, 30, 51, 51, 51, 30, 0>>,
    <<0, 0, 59, 102, 102, 62, 6, 15>>,
    <<0, 0, 110, 51, 51, 62, 48, 120>>,
    <<0, 0, 59, 110, 102, 6, 15, 0>>,
    <<0, 0, 62, 3, 30, 48, 31, 0>>,
    <<8, 12, 62, 12, 12, 44, 24, 0>>,
    <<0, 0, 51, 51, 51, 51, 110, 0>>,
    <<0, 0, 51, 51, 51, 30, 12, 0>>,
    <<0, 0, 99, 107, 127, 127, 54, 0>>,
    <<0, 0, 99, 54, 28, 54, 99, 0>>,
    <<0, 0, 51, 51, 51, 62, 48, 31>>,
    <<0, 0, 63, 25, 12, 38, 63, 0>>,
    <<56, 12, 12, 7, 12, 12, 56, 0>>,
    <<24, 24, 24, 0, 24, 24, 24, 0>>,
    <<7, 12, 12, 56, 12, 12, 7, 0>>,
    <<110, 59, 0, 0, 0, 0, 0, 0>>,
    <<0, 0, 0, 0, 0, 0, 0, 0>>
>>

\* ------------------------------------------------------- integer widths
I16(v) == ((v + 32768) % 65536) - 32768
U8(v) == v % 256
Abs(v) == IF v < 0 THEN -v ELSE v
Min(a, b) == IF a < b THEN a ELSE b
Max(a, b) == IF a < b THEN b ELSE a

\* ---------------------------------------------------------------- state
VARIABLES
    frame_buffer,       \* "null" before begin, "buf" once a buffer is attached
    fb,                 \* the caller's buffer: cell index -> colour
    current_rotation, display_width, display_height,
    cursor_x, cursor_y, text_color, text_bg_color, text_size, text_wrap,
    text_area_x, text_area_y, text_area_w, text_area_h, line_spacing,
    last,               \* the call that produced this state, with its arguments
    writes,             \* raw stores of that call: <<logical x, logical y, cell index>>
    nops,               \* number of drawing / setter calls made so far
    currentScene, currentRotationDemoIndex, previousSceneForRotationReset,
    interactiveTargetsInitialized,      \* the demo application's scene state
    elapsed             \* millis() - lastInteractionTime at the end of the last loop()
                        \* pass; values above INTERACTION_DEBOUNCE are alike and
                        \* kept as INTERACTION_DEBOUNCE + 1

display == <<current_rotation, display_width, display_height>>
textState == <<cursor_x, cursor_y, text_color, text_bg_color, text_size, text_wrap,
               text_area_x, text_area_y, text_area_w, text_area_h, line_spacing>>
demoState == <<currentScene, currentRotationDemoIndex, previousSceneForRotationReset,
               interactiveTargetsInitialized, elapsed>>
vars == <<frame_buffer, fb, display, textState, last, writes, nops, demoState>>

Cells == 0 .. (LCD_H_RES * LCD_V_RES - 1)
CellOf(p) == p[2] * LCD_H_RES + p[1]


\* ------------------------------------------------------------- rendering
\* The effect of a call on the buffer: log is the set of raw stores
\* <<logical x, logical y, cell index>>, pm the colour each stored cell ends with.
NoDraw == [log |-> {}, pm |-> <<>>]
Paint(stores, color) == [log |-> stores, pm |-> [i \in {s[3] : s \in stores} |-> color]]
Then(a, b) ==
    CHOOSE r \in {[log |-> av.log \cup bv.log, pm |-> bv.pm @@ av.pm] : av \in {a}, bv \in {b}} : TRUE

\* mutant: the 270-degree case does not swap the dimensions
RotatedSize_NoSwap270(rotation, hres, vres) ==
    IF rotation = ROTATION_0 \/ rotation = ROTATION_180 \/ rotation = ROTATION_270 THEN <<hres, vres>>
    ELSE IF rotation = ROTATION_90 THEN <<vres, hres>>
    ELSE <<0, 0>>

\* setRotation's switch: the logical size for a rotation
RotatedSize(rotation, hres, vres) ==
    IF rotation = ROTATION_0 \/ rotation = ROTATION_180 THEN <<hres, vres>>
    ELSE IF rotation = ROTATION_90 \/ rotation = ROTATION_270 THEN <<vres, hres>>
    ELSE <<0, 0>>

\* mutant: the 90-degree case mirrors against the wrong dimension
TransformXY_WrongDim90(rotation, x, y, hres, vres) ==
    CASE rotation = ROTATION_0   -> <<x, y>>
      [] rotation = ROTATION_90  -> <<I16(vres - 1 - y), x>>
      [] rotation = ROTATION_180 -> <<I16(hres - 1 - x), I16(vres - 1 - y)>>
      [] rotation = ROTATION_270 -> <<y, I16(vres - 1 - x)>>

\* mutant: the 270-degree case is the inverse of the 90-degree case
TransformXY_Inverse270(rotation, x, y, hres, vres) ==
    CASE rotation = ROTATION_0   -> <<x, y>>
      [] rotation = ROTATION_90  -> <<I16(hres - 1 - y), x>>
      [] rotation = ROTATION_180 -> <<I16(hres - 1 - x), I16(vres - 1 - y)>>
      [] rotation = ROTATION_270 -> <<y, I16(hres - 1 - x)>>

TransformXY(rotation, x, y, hres, vres) ==
    CASE rotation = ROTATION_0   -> <<x, y>>
      [] rotation = ROTATION_90  -> <<I16(hres - 1 - y), x>>
      [] rotation = ROTATION_180 -> <<I16(hres - 1 - x), I16(vres - 1 - y)>>
      [] rotation = ROTATION_270 -> <<y, I16(vres - 1 - x)>>

transformCoordinates(x, y) == TransformXY(current_rotation, x, y, LCD_H_RES, LCD_V_RES)

\* pixel(): the store it performs, if any
PixelStores(x, y) ==
    IF x >= 0 /\ x < display_width /\ y >= 0 /\ y < display_height
    THEN LET t == transformCoordinates(x, y)
         IN  IF t[1] >= 0 /\ t[1] < LCD_H_RES /\ t[2] >= 0 /\ t[2] < LCD_V_RES
             THEN {<<x, y, t[2] * LCD_H_RES + t[1]>>}
             ELSE {}
    ELSE {}

pixel(x, y, color) == Paint(PixelStores(x, y), color)

\* mutant: the right edge is not clipped
ClipRect_NoRightClip(x, y, w, h, dw, dh) ==
    IF x >= dw \/ y >= dh \/ w <= 0 \/ h <= 0
    THEN [x |-> x, y |-> y, w |-> 0, h |-> 0]
    ELSE LET w1 == IF x < 0 THEN I16(w + x) ELSE w
             x1 == IF x < 0 THEN 0 ELSE x
             h1 == IF y < 0 THEN I16(h + y) ELSE h
             y1 == IF y < 0 THEN 0 ELSE y
             h2 == IF y1 + h1 > dh THEN I16(dh - y1) ELSE h1
         IN  [x |-> x1, y |-> y1, w |-> w1, h |-> h2]

\* mutant: a negative origin is moved to 0 without shrinking the size
ClipRect_NoShrink(x, y, w, h, dw, dh) ==
    IF x >= dw \/ y >= dh \/ w <= 0 \/ h <= 0
    THEN [x |-> x, y |-> y, w |-> 0, h |-> 0]
    ELSE LET x1 == IF x < 0 THEN 0 ELSE x
             y1 == IF y < 0 THEN 0 ELSE y
             w2 == IF x1 + w > dw THEN I16(dw - x1) ELSE w
             h2 == IF y1 + h > dh THEN I16(dh - y1) ELSE h
         IN  [x |-> x1, y |-> y1, w |-> w2, h |-> h2]

\* fillRect's validation and clipping; a rejected rectangle has w = h = 0
ClipRect(x, y, w, h, dw, dh) ==
    IF x >= dw \/ y >= dh \/ w <= 0 \/ h <= 0
    THEN [x |-> x, y |-> y, w |-> 0, h |-> 0]
    ELSE LET w1 == IF x < 0 THEN I16(w + x) ELSE w
             x1 == IF x < 0 THEN 0 ELSE x
             h1 == IF y < 0 THEN I16(h + y) ELSE h
             y1 == IF y < 0 THEN 0 ELSE y
             w2 == IF x1 + w1 > dw THEN I16(dw - x1) ELSE w1
             h2 == IF y1 + h1 > dh THEN I16(dh - y1) ELSE h1
         IN  [x |-> x1, y |-> y1, w |-> w2, h |-> h2]

\* the rows x columns both loops of fillRect run over
RectPoints(r) == {<<r.x + col, r.y + row>> : col \in 0 .. (r.w - 1), row \in 0 .. (r.h - 1)}

\* rotation # 0: pixel by pixel; rotation 0: scanlines stored without any check
FillRectStores(r) ==
    IF current_rotation # ROTATION_0
    THEN UNION {PixelStores(p[1], p[2]) : p \in RectPoints(r)}
    ELSE {<<p[1], p[2], p[2] * LCD_H_RES + p[1]>> : p \in RectPoints(r)}

fillRect(x, y, w, h, color) ==
    Paint(FillRectStores(ClipRect(x, y, w, h, display_width, display_height)), color)

clear(color) == fillRect(0, 0, display_width, display_height, color)

\* the sequence of rectangles fillCircle passes to fillRect, in call order
Span(x, y, w, h) == [x |-> I16(x), y |-> I16(y), w |-> I16(w), h |-> I16(h)]

RECURSIVE FillCircleLoop(_, _, _, _, _)
\* mutant: the second pair of scanlines is skipped where x meets y
FillCircleLoop_SkipsDiagonal(x0, y0, x, y, decision) ==
    IF x < y
    THEN LET neg == decision < 0
             d1 == IF neg THEN I16(decision + 2 * x + 3) ELSE I16(decision + 2 * (x - y) + 5)
             s1 == IF neg THEN <<>>
                   ELSE <<Span(x0 - x, y0 + y, 2 * x + 1, 1), Span(x0 - x, y0 - y, 2 * x + 1, 1)>>
             y1 == IF neg THEN y ELSE I16(y - 1)
             x1 == I16(x + 1)
             s2 == IF x1 < y1
                   THEN <<Span(x0 - y1, y0 + x1, 2 * y1 + 1, 1), Span(x0 - y1, y0 - x1, 2 * y1 + 1, 1)>>
                   ELSE <<>>
         IN  s1 \o s2 \o FillCircleLoop(x0, y0, x1, y1, d1)
    ELSE <<>>

FillCircleLoop(x0, y0, x, y, decision) ==
    IF x < y
    THEN LET neg == decision < 0
             d1 == IF neg THEN I16(decision + 2 * x + 3) ELSE I16(decision + 2 * (x - y) + 5)
             s1 == IF neg THEN <<>>
                   ELSE <<Span(x0 - x, y0 + y, 2 * x + 1, 1), Span(x0 - x, y0 - y, 2 * x + 1, 1)>>
             y1 == IF neg THEN y ELSE I16(y - 1)
             x1 == I16(x + 1)
             s2 == IF x1 <= y1
                   THEN <<Span(x0 - y1, y0 + x1, 2 * y1 + 1, 1), Span(x0 - y1, y0 - x1, 2 * y1 + 1, 1)>>
                   ELSE <<>>
         IN  s1 \o s2 \o FillCircleLoop(x0, y0, x1, y1, d1)
    ELSE <<>>

\* mutant: the centre line stops one pixel short of the outline on each side
FillCircleSpans_ShortCentre(x0, y0, radius) ==
    IF radius <= 0 THEN <<>>
    ELSE <<Span(x0 - radius + 1, y0, 2 * radius - 1, 1)>> \o FillCircleLoop(x0, y0, 0, radius, I16(1 - radius))

FillCircleSpans(x0, y0, radius) ==
    IF radius <= 0 THEN <<>>
    ELSE <<Span(x0 - radius, y0, 2 * radius + 1, 1)>> \o FillCircleLoop(x0, y0, 0, radius, I16(1 - radius))

fillCircle(x0, y0, radius, color) ==
    LET spans == FillCircleSpans(x0, y0, radius)
    IN  Paint(UNION {FillRectStores(ClipRect(spans[k].x, spans[k].y, spans[k].w, spans[k].h,
                                             display_width, display_height)) : k \in DOMAIN spans},
              color)

\* line: the Bresenham loop state and one iteration of it
BresInit(x0, y0, x1, y1) ==
    [x |-> x0, y |-> y0, x1 |-> x1, y1 |-> y1,
     dx |-> I16(Abs(x1 - x0)), dy |-> I16(Abs(y1 - y0)),
     sx |-> IF x0 < x1 THEN 1 ELSE -1, sy |-> IF y0 < y1 THEN 1 ELSE -1,
     err |-> I16(I16(Abs(x1 - x0)) - I16(Abs(y1 - y0)))]

\* mutant: the step that would arrive at the endpoint is not taken
BresStep_StopsShort(s) ==
    LET e2 == I16(2 * s.err)
        a  == IF e2 > -s.dy THEN [s EXCEPT !.err = I16(@ - s.dy), !.x = I16(@ + s.sx)] ELSE s
        b  == IF e2 < s.dx THEN [a EXCEPT !.err = I16(@ + s.dx), !.y = I16(@ + s.sy)] ELSE a
    IN  IF b.x = s.x1 /\ b.y = s.y1 THEN s ELSE b

\* mutant: the y branch compares against dy instead of dx
BresStep_WrongBound(s) ==
    LET e2 == I16(2 * s.err)
        a  == IF e2 > -s.dy THEN [s EXCEPT !.err = I16(@ - s.dy), !.x = I16(@ + s.sx)] ELSE s
    IN  IF e2 < s.dy THEN [a EXCEPT !.err = I16(@ + s.dx), !.y = I16(@ + s.sy)] ELSE a

BresStep(s) ==
    LET e2 == I16(2 * s.err)
        a  == IF e2 > -s.dy THEN [s EXCEPT !.err = I16(@ - s.dy), !.x = I16(@ + s.sx)] ELSE s
    IN  IF e2 < s.dx THEN [a EXCEPT !.err = I16(@ + s.dx), !.y = I16(@ + s.sy)] ELSE a

\* the points the loop hands to pixel(), in order; fuel cuts a loop that does not end
RECURSIVE BresLoop(_, _)
BresLoop(s, fuel) ==
    IF (s.x = s.x1 /\ s.y = s.y1) \/ fuel = 0
    THEN <<<<s.x, s.y>>>>
    ELSE <<<<s.x, s.y>>>> \o BresLoop(BresStep(s), fuel - 1)

BresPoints(x0, y0, x1, y1) == BresLoop(BresInit(x0, y0, x1, y1), LineFuel)

\* mutant: the endpoints of an axis-aligned line are not put in order
line_NoSwap(x0, y0, x1, y1, color) ==
    IF y0 = y1
    THEN fillRect(x0, y0, I16(x1 - x0 + 1), 1, color)
    ELSE IF x0 = x1
    THEN fillRect(x0, y0, 1, I16(y1 - y0 + 1), color)
    ELSE LET pts == BresPoints(x0, y0, x1, y1)
         IN  Paint(UNION {PixelStores(pts[k][1], pts[k][2]) : k \in DOMAIN pts}, color)

line(x0, y0, x1, y1, color) ==
    IF y0 = y1
    THEN LET a == IF x0 > x1 THEN x1 ELSE x0
             b == IF x0 > x1 THEN x0 ELSE x1
         IN  fillRect(a, y0, I16(b - a + 1), 1, color)
    ELSE IF x0 = x1
    THEN LET a == IF y0 > y1 THEN y1 ELSE y0
             b == IF y0 > y1 THEN y0 ELSE y1
         IN  fillRect(x0, a, 1, I16(b - a + 1), color)
    ELSE LET pts == BresPoints(x0, y0, x1, y1)
         IN  Paint(UNION {PixelStores(pts[k][1], pts[k][2]) : k \in DOMAIN pts}, color)

rect(x, y, w, h, color) ==
    Then(Then(Then(line(x, y, I16(x + w - 1), y, color),
                   line(x, I16(y + h - 1), I16(x + w - 1), I16(y + h - 1), color)),
              line(x, y, x, I16(y + h - 1), color)),
         line(I16(x + w - 1), y, I16(x + w - 1), I16(y + h - 1), color))

\* mutant: one of the eight pixel() calls is missing
Octants_SevenOnly(x0, y0, x, y) ==
    { <<I16(x0 + x), I16(y0 + y)>>, <<I16(x0 - x), I16(y0 + y)>>,
      <<I16(x0 + x), I16(y0 - y)>>, <<I16(x0 - x), I16(y0 - y)>>,
      <<I16(x0 + y), I16(y0 + x)>>, <<I16(x0 - y), I16(y0 + x)>>,
      <<I16(x0 + y), I16(y0 - x)>> }

\* circle: the eight pixel() calls of one iteration, and the whole loop
Octants(x0, y0, x, y) ==
    { <<I16(x0 + x), I16(y0 + y)>>, <<I16(x0 - x), I16(y0 + y)>>,
      <<I16(x0 + x), I16(y0 - y)>>, <<I16(x0 - x), I16(y0 - y)>>,
      <<I16(x0 + y), I16(y0 + x)>>, <<I16(x0 - y), I16(y0 + x)>>,
      <<I16(x0 + y), I16(y0 - x)>>, <<I16(x0 - y), I16(y0 - x)>> }

RECURSIVE CircleLoop(_, _, _, _, _)
CircleLoop(x0, y0, x, y, decision) ==
    IF x <= y
    THEN Octants(x0, y0, x, y) \cup
         (IF decision < 0
          THEN CircleLoop(x0, y0, I16(x + 1), y, I16(decision + 2 * x + 3))
          ELSE CircleLoop(x0, y0, I16(x + 1), I16(y - 1), I16(decision + 2 * (x - y) + 5)))
    ELSE {}

\* mutant: only a negative radius is rejected
CirclePoints_ZeroAllowed(x0, y0, radius) ==
    IF radius < 0 THEN {} ELSE CircleLoop(x0, y0, 0, radius, I16(1 - radius))

\* the logical points circle() hands to pixel()
CirclePoints(x0, y0, radius) ==
    IF radius <= 0 THEN {} ELSE CircleLoop(x0, y0, 0, radius, I16(1 - radius))

circle(x0, y0, radius, color) ==
    Paint(UNION {PixelStores(p[1], p[2]) : p \in CirclePoints(x0, y0, radius)}, color)

\* ------------------------------------------------------------------ text
\* characters are byte values; a C string is a sequence of non-zero bytes
NL == 10
CR == 13
TAB == 9
SPACE == 32

FontBit(c, row, col) == (font8x8_basic[c + 1][row + 1] \div (2 ^ col)) % 2 = 1

\* the store(s) of one font bit: a pixel at size 1, a size x size fillRect otherwise
GlyphBitStores(x, y, row, col, size) ==
    IF size = 1
    THEN PixelStores(I16(x + col), I16(y + row))
    ELSE FillRectStores(ClipRect(I16(x + col * size), I16(y + row * size), size, size,
                                 display_width, display_height))

\* mutant: clear bits are painted even when bg equals the foreground colour
drawChar_AlwaysOpaque(x, y, c, color, bg, size) ==
    IF c < 0 \/ c > 127 THEN NoDraw
    ELSE Paint(UNION {GlyphBitStores(x, y, b[1], b[2], size) : b \in (0 .. 7) \X (0 .. 7)}, color)

\* the 64 bit positions touch pairwise different pixels, so the order of the
\* two colours does not matter
drawChar(x, y, c, color, bg, size) ==
    IF c < 0 \/ c > 127 THEN NoDraw
    ELSE LET bits == (0 .. 7) \X (0 .. 7)
             fg == UNION {GlyphBitStores(x, y, b[1], b[2], size) : b \in {q \in bits : FontBit(c, q[1], q[2])}}
             bk == IF bg # color
                   THEN UNION {GlyphBitStores(x, y, b[1], b[2], size) :
                                 b \in {q \in bits : ~FontBit(c, q[1], q[2])}}
                   ELSE {}
         IN  Then(Paint(bk, bg), Paint(fg, color))

\* text(): t = [cx, cy, d] is the local cursor and what has been drawn so far;
\* TextStep is one pass of the while loop for the character ch
TextStep(t, ch, x, color, bg, size) ==
    IF ch = NL THEN [t EXCEPT !.cy = I16(t.cy + size * 8), !.cx = x]
    ELSE IF ch # CR
    THEN [t EXCEPT !.d = Then(t.d, drawChar(t.cx, t.cy, ch, color, bg, size)),
                   !.cx = I16(t.cx + size * 8)]
    ELSE t

\* the passes for str[lo .. hi], in order (evaluated in two halves)
RECURSIVE TextLoop(_, _, _, _, _, _, _, _)
TextLoop(t, str, lo, hi, x, color, bg, size) ==
    IF lo > hi THEN t
    ELSE IF lo = hi THEN CHOOSE r \in {TextStep(v, str[lo], x, color, bg, size) : v \in {t}} : TRUE
    ELSE LET mid == (lo + hi) \div 2
         IN  CHOOSE r \in {TextLoop(v, str, mid + 1, hi, x, color, bg, size) :
                             v \in {TextLoop(t, str, lo, mid, x, color, bg, size)}} : TRUE

\* mutant: the local cursor is not declared, so the stream cursor is used
text_FromCursor(x, y, str, color, bg, size) ==
    TextLoop([cx |-> cursor_x, cy |-> cursor_y, d |-> NoDraw], str, 1, Len(str), x, color, bg, size).d

text(x, y, str, color, bg, size) ==
    TextLoop([cx |-> x, cy |-> y, d |-> NoDraw], str, 1, Len(str), x, color, bg, size).d

\* cursor-stream path: c = [x, y, d] is the cursor and what has been drawn so far
clearTextArea(c) ==
    [x |-> text_area_x, y |-> text_area_y,
     d |-> Then(c.d, fillRect(text_area_x, text_area_y, text_area_w, text_area_h, text_bg_color))]

\* mutant: the line spacing is not added to the line height
newLine_NoSpacing(c) ==
    LET n == [c EXCEPT !.x = text_area_x, !.y = I16(c.y + text_size * 8)]
    IN  IF n.y + text_size * 8 > text_area_y + text_area_h THEN clearTextArea(n) ELSE n

\* mutant: running past the bottom of the text area does not reset the cursor
newLine_NoScroll(c) ==
    [c EXCEPT !.x = text_area_x, !.y = I16(c.y + text_size * 8 + line_spacing)]

newLine(c) ==
    LET n == [c EXCEPT !.x = text_area_x, !.y = I16(c.y + text_size * 8 + line_spacing)]
    IN  IF n.y + text_size * 8 > text_area_y + text_area_h THEN clearTextArea(n) ELSE n

\* mutant: the wrap test is off by one (>= instead of >)
advanceCursor_WrapAtEdge(c, char_width) ==
    LET n == [c EXCEPT !.x = I16(c.x + char_width)]
    IN  IF text_wrap /\ n.x + char_width >= text_area_x + text_area_w THEN newLine(n) ELSE n

\* mutant: the wrap flag is not consulted
advanceCursor_IgnoresWrapFlag(c, char_width) ==
    LET n == [c EXCEPT !.x = I16(c.x + char_width)]
    IN  IF n.x + char_width > text_area_x + text_area_w THEN newLine(n) ELSE n

advanceCursor(c, char_width) ==
    LET n == [c EXCEPT !.x = I16(c.x + char_width)]
    IN  IF text_wrap /\ n.x + char_width > text_area_x + text_area_w THEN newLine(n) ELSE n

\* mutant: a character above 127 is not drawn but still advances the cursor
printChar_AdvancesOnBad(c, ch) ==
    IF ch = NL THEN newLine(c)
    ELSE IF ch = CR THEN [c EXCEPT !.x = text_area_x]
    ELSE advanceCursor([c EXCEPT !.d = Then(c.d, drawChar(c.x, c.y, ch, text_color, text_bg_color, text_size))],
                       U8(text_size * 8))

\* print(char): one character of the stream
printChar(c, ch) ==
    IF ch = NL THEN newLine(c)
    ELSE IF ch = CR THEN [c EXCEPT !.x = text_area_x]
    ELSE IF ch >= 0 /\ ch <= 127
    THEN advanceCursor([c EXCEPT !.d = Then(c.d, drawChar(c.x, c.y, ch, text_color, text_bg_color, text_size))],
                       U8(text_size * 8))
    ELSE c

\* the passes for str[lo .. hi], in order (evaluated in two halves)
RECURSIVE PrintLoop(_, _, _, _)
PrintLoop(c, str, lo, hi) ==
    IF lo > hi THEN c
    ELSE IF lo = hi THEN CHOOSE r \in {printChar(v, str[lo]) : v \in {c}} : TRUE
    ELSE LET mid == (lo + hi) \div 2
         IN  CHOOSE r \in {PrintLoop(v, str, mid + 1, hi) : v \in {PrintLoop(c, str, lo, mid)}} : TRUE

print(c, str) == PrintLoop(c, str, 1, Len(str))
println(c, str) == print(print(c, str), <<NL>>)

\* word-wrap path: w = [x, y, word, d, words]; words lists the text() calls made
WORD_BUFFER == 50

\* mutant: the line-break test leaves the word's width out
WrapFlush_BreaksLate(w, x, maxWidth, sep, color, size) ==
    LET line_height == I16(size * 8 + line_spacing)
        word_width  == I16(Len(w.word) * size * 8)
        brk == w.x > x + maxWidth /\ w.x > x
        cx  == IF brk THEN x ELSE w.x
        cy  == IF brk THEN I16(w.y + line_height) ELSE w.y
        ax  == I16(cx + word_width)
    IN  [x |-> IF sep = SPACE THEN I16(ax + size * 8)
               ELSE IF sep = NL THEN x
               ELSE IF sep = TAB THEN I16(ax + size * 8 * 4)
               ELSE ax,
         y |-> IF sep = NL THEN I16(cy + line_height) ELSE cy,
         word |-> <<>>,
         d |-> Then(w.d, text(cx, cy, w.word, color, text_bg_color, size)),
         words |-> Append(w.words, [x |-> cx, y |-> cy, word |-> w.word])]

\* mutant: a tab advances like a space
WrapFlush_TabAsSpace(w, x, maxWidth, sep, color, size) ==
    LET line_height == I16(size * 8 + line_spacing)
        word_width  == I16(Len(w.word) * size * 8)
        brk == w.x + word_width > x + maxWidth /\ w.x > x
        cx  == IF brk THEN x ELSE w.x
        cy  == IF brk THEN I16(w.y + line_height) ELSE w.y
        ax  == I16(cx + word_width)
    IN  [x |-> IF sep = SPACE \/ sep = TAB THEN I16(ax + size * 8)
               ELSE IF sep = NL THEN x
               ELSE ax,
         y |-> IF sep = NL THEN I16(cy + line_height) ELSE cy,
         word |-> <<>>,
         d |-> Then(w.d, text(cx, cy, w.word, color, text_bg_color, size)),
         words |-> Append(w.words, [x |-> cx, y |-> cy, word |-> w.word])]

WrapFlush(w, x, maxWidth, sep, color, size) ==
    LET line_height == I16(size * 8 + line_spacing)
        word_width  == I16(Len(w.word) * size * 8)
        brk == w.x + word_width > x + maxWidth /\ w.x > x
        cx  == IF brk THEN x ELSE w.x
        cy  == IF brk THEN I16(w.y + line_height) ELSE w.y
        ax  == I16(cx + word_width)
    IN  [x |-> IF sep = SPACE THEN I16(ax + size * 8)
               ELSE IF sep = NL THEN x
               ELSE IF sep = TAB THEN I16(ax + size * 8 * 4)
               ELSE ax,
         y |-> IF sep = NL THEN I16(cy + line_height) ELSE cy,
         word |-> <<>>,
         d |-> Then(w.d, text(cx, cy, w.word, color, text_bg_color, size)),
         words |-> Append(w.words, [x |-> cx, y |-> cy, word |-> w.word])]

\* one pass of printWrapped's while loop, for the character at index i
WrapStep(w, str, i, x, maxWidth, color, size) ==
    LET ch == str[i]
        isSep == ch = SPACE \/ ch = NL \/ ch = TAB
    IN  IF isSep \/ i = Len(str)
        THEN WrapFlush(IF isSep THEN w ELSE [w EXCEPT !.word = Append(@, ch)],
                       x, maxWidth, ch, color, size)
        ELSE IF Len(w.word) < WORD_BUFFER - 1 THEN [w EXCEPT !.word = Append(@, ch)] ELSE w

\* the passes for str[lo .. hi], in order (evaluated in two halves)
RECURSIVE WrapLoop(_, _, _, _, _, _, _, _)
WrapLoop(w, str, lo, hi, x, maxWidth, color, size) ==
    IF lo > hi THEN w
    ELSE IF lo = hi THEN CHOOSE r \in {WrapStep(v, str, lo, x, maxWidth, color, size) : v \in {w}} : TRUE
    ELSE LET mid == (lo + hi) \div 2
         IN  CHOOSE r \in {WrapLoop(v, str, mid + 1, hi, x, maxWidth, color, size) :
                             v \in {WrapLoop(w, str, lo, mid, x, maxWidth, color, size)}} : TRUE

printWrappedRun(x, y, maxWidth, str, color, size) ==
    WrapLoop([x |-> x, y |-> y, word |-> <<>>, d |-> NoDraw, words |-> <<>>],
             str, 1, Len(str), x, maxWidth, color, size)

printWrapped(x, y, maxWidth, str, color, size) == printWrappedRun(x, y, maxWidth, str, color, size).d

\* the highest index of word_buffer a run stores to: flushing a word of n
\* characters stores them at 0 .. n-1 and the terminator at n
WordBufferHigh(words) ==
    LET ends == {Len(words[k].word) : k \in DOMAIN words}
    IN  IF ends = {} THEN -1 ELSE CHOOSE m \in ends : \A e \in ends : e <= m

\* the text() calls of the first n flushed words
RECURSIVE WordsDraw(_, _, _, _)
WordsDraw(words, n, color, size) ==
    IF n = 0 THEN NoDraw
    ELSE Then(WordsDraw(words, n - 1, color, size),
              text(words[n].x, words[n].y, words[n].word, color, text_bg_color, size))

\* what a run can leave in the buffer.  A store past the end of word_buffer
\* is undefined: either the byte falls into unused stack and the call goes on
\* as written, or the frame is damaged and the call ends before the word
\* being flushed is drawn.
printWrappedOutcomes(run, color, size) ==
    IF WordBufferHigh(run.words) >= WORD_BUFFER
    THEN {run.d, WordsDraw(run.words, Len(run.words) - 1, color, size)}
    ELSE {run.d}

\* ------------------------------------------------------------------ Init
\* buffers a caller may hand over: zeroed, or arbitrary content
InitBuffers ==
    { [i \in Cells |-> COLOR_BLACK],
      [i \in Cells |-> IF i % 3 = 0 THEN COLOR_RED ELSE IF i % 3 = 1 THEN COLOR_WHITE ELSE COLOR_BLACK] }

Init ==
    /\ frame_buffer = "null"
    /\ fb \in InitBuffers
    /\ current_rotation = ROTATION_0
    /\ display_width = LCD_H_RES
    /\ display_height = LCD_V_RES
    /\ cursor_x = 0
    /\ cursor_y = 0
    /\ text_color = COLOR_WHITE
    /\ text_bg_color = COLOR_BLACK
    /\ text_size = 1
    /\ text_wrap = TRUE
    /\ text_area_x = 0
    /\ text_area_y = 0
    /\ text_area_w = LCD_H_RES
    /\ text_area_h = LCD_V_RES
    /\ line_spacing = 2
    /\ last = [op |-> "init"]
    /\ writes = {}
    /\ nops = 0
    /\ currentScene = 0
    /\ currentRotationDemoIndex = 0
    /\ previousSceneForRotationReset = -1
    /\ interactiveTargetsInitialized = FALSE
    /\ elapsed = 0

\* mutant: begin forgets the origin of the text area
Begin_KeepsAreaOrigin ==
    /\ frame_buffer' = "buf"
    /\ current_rotation' = ROTATION_0
    /\ display_width' = LCD_H_RES
    /\ display_height' = LCD_V_RES
    /\ cursor_x' = 0
    /\ cursor_y' = 0
    /\ text_color' = COLOR_WHITE
    /\ text_bg_color' = COLOR_BLACK
    /\ text_size' = 1
    /\ text_wrap' = TRUE
    /\ text_area_w' = LCD_H_RES
    /\ text_area_h' = LCD_V_RES
    /\ line_spacing' = 2
    /\ last' = [op |-> "begin"]
    /\ writes' = {}
    /\ UNCHANGED <<demoState, fb, nops, text_area_x, text_area_y>>

\* --------------------------------------------------------------- actions
Begin ==
    /\ frame_buffer' = "buf"
    /\ current_rotation' = ROTATION_0
    /\ display_width' = LCD_H_RES
    /\ display_height' = LCD_V_RES
    /\ cursor_x' = 0
    /\ cursor_y' = 0
    /\ text_color' = COLOR_WHITE
    /\ text_bg_color' = COLOR_BLACK
    /\ text_size' = 1
    /\ text_wrap' = TRUE
    /\ text_area_x' = 0
    /\ text_area_y' = 0
    /\ text_area_w' = LCD_H_RES
    /\ text_area_h' = LCD_V_RES
    /\ line_spacing' = 2
    /\ last' = [op |-> "begin"]
    /\ writes' = {}
    /\ UNCHANGED <<demoState, fb, nops>>

\* mutant: a rotation change also homes the cursor
SetRotation_HomesCursor(rotation) ==
    /\ current_rotation' = rotation
    /\ display_width' = RotatedSize(rotation, LCD_H_RES, LCD_V_RES)[1]
    /\ display_height' = RotatedSize(rotation, LCD_H_RES, LCD_V_RES)[2]
    /\ text_area_w' = display_width'
    /\ text_area_h' = display_height'
    /\ cursor_x' = 0
    /\ cursor_y' = 0
    /\ last' = [op |-> "setRotation", rotation |-> rotation]
    /\ writes' = {}
    /\ nops' = nops + 1
    /\ UNCHANGED <<demoState, frame_buffer, fb, text_color, text_bg_color, text_size,
                   text_wrap, text_area_x, text_area_y, line_spacing>>

SetRotation(rotation) ==
    /\ current_rotation' = rotation
    /\ display_width' = RotatedSize(rotation, LCD_H_RES, LCD_V_RES)[1]
    /\ display_height' = RotatedSize(rotation, LCD_H_RES, LCD_V_RES)[2]
    /\ text_area_w' = display_width'
    /\ text_area_h' = display_height'
    /\ last' = [op |-> "setRotation", rotation |-> rotation]
    /\ writes' = {}
    /\ nops' = nops + 1
    /\ UNCHANGED <<demoState, frame_buffer, fb, cursor_x, cursor_y, text_color, text_bg_color, text_size,
                   text_wrap, text_area_x, text_area_y, line_spacing>>

\* a drawing call that leaves the text state alone
Draw(d, call) ==
    /\ frame_buffer = "buf"
    /\ fb' = [i \in Cells |-> IF i \in DOMAIN d.pm THEN d.pm[i] ELSE fb[i]]
    /\ writes' = d.log
    /\ last' = call
    /\ nops' = nops + 1
    /\ UNCHANGED <<demoState, frame_buffer, display, textState>>

FillRect(x, y, w, h, color) ==
    Draw(fillRect(x, y, w, h, color),
         [op |-> "fillRect", x |-> x, y |-> y, w |-> w, h |-> h, color |-> color])

Clear(color) == Draw(clear(color), [op |-> "clear", color |-> color])

Line(x0, y0, x1, y1, color) ==
    Draw(line(x0, y0, x1, y1, color),
         [op |-> "line", x0 |-> x0, y0 |-> y0, x1 |-> x1, y1 |-> y1, color |-> color])

Rect(x, y, w, h, color) ==
    Draw(rect(x, y, w, h, color),
         [op |-> "rect", x |-> x, y |-> y, w |-> w, h |-> h, color |-> color])

Circle(x0, y0, radius, color) ==
    Draw(circle(x0, y0, radius, color),
         [op |-> "circle", x0 |-> x0, y0 |-> y0, radius |-> radius, color |-> color])

FillCircle(x0, y0, radius, color) ==
    Draw(fillCircle(x0, y0, radius, color),
         [op |-> "fillCircle", x0 |-> x0, y0 |-> y0, radius |-> radius, color |-> color])

\* line(), one loop iteration at a time.  LineBegin is the entry with
\* x0 # x1 and y0 # y1 up to the loop head; LineIter is one pass of the
\* while (true) body: pixel(x, y), then either the break at (x1, y1), which
\* ends the call, or the step to the next point.
LineBegin(x0, y0, x1, y1, color) ==
    /\ frame_buffer = "buf"
    /\ x0 # x1 /\ y0 # y1
    /\ last' = [op |-> "lineLoop", s |-> BresInit(x0, y0, x1, y1), x0 |-> x0, y0 |-> y0, color |-> color]
    /\ writes' = {}
    /\ nops' = nops + 1
    /\ UNCHANGED <<demoState, frame_buffer, fb, display, textState>>

LineIter ==
    /\ last.op = "lineLoop"
    /\ \E d \in {pixel(last.s.x, last.s.y, last.color)} :
           /\ fb' = [i \in Cells |-> IF i \in DOMAIN d.pm THEN d.pm[i] ELSE fb[i]]
           /\ writes' = writes \cup d.log
    /\ last' = IF last.s.x = last.s.x1 /\ last.s.y = last.s.y1
               THEN [op |-> "line", x0 |-> last.x0, y0 |-> last.y0, x1 |-> last.s.x1, y1 |-> last.s.y1,
                     color |-> last.color, end |-> <<last.s.x, last.s.y>>]
               ELSE [last EXCEPT !.s = BresStep(@)]
    /\ UNCHANGED <<demoState, frame_buffer, display, textState, nops>>

DrawChar(x, y, c, color, bg, size) ==
    Draw(drawChar(x, y, c, color, bg, size),
         [op |-> "drawChar", x |-> x, y |-> y, c |-> c, color |-> color, bg |-> bg, size |-> size])

Text(x, y, str, color, bg, size) ==
    Draw(text(x, y, str, color, bg, size),
         [op |-> "text", x |-> x, y |-> y, str |-> str, color |-> color, bg |-> bg, size |-> size])

PrintWrapped(x, y, maxWidth, str, color, size) ==
    \E run \in {printWrappedRun(x, y, maxWidth, str, color, size)} :
        \E d \in printWrappedOutcomes(run, color, size) :
            Draw(d, [op |-> "printWrapped", x |-> x, y |-> y, maxWidth |-> maxWidth, str |-> str,
                     color |-> color, size |-> size, high |-> WordBufferHigh(run.words)])

\* a cursor-stream call: draws and moves the cursor
Stream(c, call) ==
    /\ frame_buffer = "buf"
    /\ fb' = [i \in Cells |-> IF i \in DOMAIN c.d.pm THEN c.d.pm[i] ELSE fb[i]]
    /\ writes' = c.d.log
    /\ cursor_x' = c.x
    /\ cursor_y' = c.y
    /\ last' = call
    /\ nops' = nops + 1
    /\ UNCHANGED <<demoState, frame_buffer, display, text_color, text_bg_color, text_size, text_wrap,
                   text_area_x, text_area_y, text_area_w, text_area_h, line_spacing>>

Cursor == [x |-> cursor_x, y |-> cursor_y, d |-> NoDraw]

PrintString(str) == Stream(print(Cursor, str), [op |-> "print", str |-> str])

PrintlnString(str) == Stream(println(Cursor, str), [op |-> "println", str |-> str])

PrintChar(character) == Stream(printChar(Cursor, character), [op |-> "printChar", c |-> character])

ClearTextArea == Stream(clearTextArea(Cursor), [op |-> "clearTextArea"])

\* numeric print overloads: sprintf into a local buffer, then print(buffer).
\* DecDigits is the decimal expansion of n >= 0 as character codes.
RECURSIVE DecDigits(_)
DecDigits(n) == IF n < 10 THEN <<48 + n>> ELSE DecDigits(n \div 10) \o <<48 + (n % 10)>>

\* sprintf(buffer, "%d" / "%u" / "%ld" / "%lu", number)
FormatInt(number) == IF number < 0 THEN <<45>> \o DecDigits(-number) ELSE DecDigits(number)

\* sprintf(format, "%%.%df", decimals) and "%%.%dlf": the format string built
FormatSpec(decimals, conv) == <<37, 46>> \o FormatInt(decimals) \o conv

\* sprintf(buffer, format, number) for an integer-valued number given by its
\* sign and the decimal digits of its exact value, decimals >= 0
FormatFixed(number, decimals) ==
    (IF number.neg THEN <<45>> ELSE <<>>) \o number.int
        \o (IF decimals > 0 THEN <<46>> \o [i \in 1 .. decimals |-> 48] ELSE <<>>)

\* the call: written / fmtWritten are the bytes sprintf stores (terminator
\* included) into buffer[capacity] / format[fmtCapacity].  sprintf does not
\* limit its output; a store past the end of either array is undefined:
\* either the bytes fall into unused stack and the text is printed as
\* written, or the frame is damaged and nothing is printed.
PrintFormatted(op, str, capacity, fmt, fmtCapacity) ==
    \E c \in (IF Len(str) + 1 > capacity \/ Len(fmt) + 1 > fmtCapacity
               THEN {print(Cursor, str), Cursor} ELSE {print(Cursor, str)}) :
        Stream(c, [op |-> op, str |-> str, written |-> Len(str) + 1, capacity |-> capacity,
                   fmtWritten |-> Len(fmt) + 1, fmtCapacity |-> fmtCapacity])

PrintInt(number) == PrintFormatted("printInt", FormatInt(number), 12, <<>>, 10)
PrintUnsigned(number) == PrintFormatted("printUnsigned", FormatInt(number), 12, <<>>, 10)
PrintLong(number) == PrintFormatted("printLong", FormatInt(number), 20, <<>>, 10)
PrintUnsignedLong(number) == PrintFormatted("printUnsignedLong", FormatInt(number), 20, <<>>, 10)
PrintFloat(number, decimals) ==
    PrintFormatted("printFloat", FormatFixed(number, decimals), 20, FormatSpec(decimals, <<102>>), 10)
PrintDouble(number, decimals) ==
    PrintFormatted("printDouble", FormatFixed(number, decimals), 25, FormatSpec(decimals, <<108, 102>>), 10)

\* setters
Setter(call) ==
    /\ last' = call
    /\ writes' = {}
    /\ nops' = nops + 1
    /\ UNCHANGED <<demoState, frame_buffer, fb, display>>

SetCursor(x, y) ==
    /\ cursor_x' = x
    /\ cursor_y' = y
    /\ Setter([op |-> "setCursor", x |-> x, y |-> y])
    /\ UNCHANGED <<text_color, text_bg_color, text_size, text_wrap,
                   text_area_x, text_area_y, text_area_w, text_area_h, line_spacing>>

SetTextColor(color, bg) ==
    /\ text_color' = color
    /\ text_bg_color' = bg
    /\ Setter([op |-> "setTextColor", color |-> color, bg |-> bg])
    /\ UNCHANGED <<cursor_x, cursor_y, text_size, text_wrap,
                   text_area_x, text_area_y, text_area_w, text_area_h, line_spacing>>

SetTextSize(size) ==
    /\ text_size' = IF size >= 1 /\ size <= 10 THEN size ELSE text_size
    /\ Setter([op |-> "setTextSize", size |-> size])
    /\ UNCHANGED <<cursor_x, cursor_y, text_color, text_bg_color, text_wrap,
                   text_area_x, text_area_y, text_area_w, text_area_h, line_spacing>>

SetTextWrap(wrap) ==
    /\ text_wrap' = wrap
    /\ Setter([op |-> "setTextWrap", wrap |-> wrap])
    /\ UNCHANGED <<cursor_x, cursor_y, text_color, text_bg_color, text_size,
                   text_area_x, text_area_y, text_area_w, text_area_h, line_spacing>>

\* mutant: a negative spacing is accepted
SetLineSpacing_NoLowerBound(spacing) ==
    /\ line_spacing' = IF spacing <= 20 THEN spacing ELSE line_spacing
    /\ Setter([op |-> "setLineSpacing", spacing |-> spacing])
    /\ UNCHANGED <<cursor_x, cursor_y, text_color, text_bg_color, text_size, text_wrap,
                   text_area_x, text_area_y, text_area_w, text_area_h>>

SetLineSpacing(spacing) ==
    /\ line_spacing' = IF spacing >= 0 /\ spacing <= 20 THEN spacing ELSE line_spacing
    /\ Setter([op |-> "setLineSpacing", spacing |-> spacing])
    /\ UNCHANGED <<cursor_x, cursor_y, text_color, text_bg_color, text_size, text_wrap,
                   text_area_x, text_area_y, text_area_w, text_area_h>>

SetTextArea(x, y, w, h) ==
    /\ text_area_x' = x
    /\ text_area_y' = y
    /\ text_area_w' = w
    /\ text_area_h' = h
    /\ Setter([op |-> "setTextArea", x |-> x, y |-> y, w |-> w, h |-> h])
    /\ UNCHANGED <<cursor_x, cursor_y, text_color, text_bg_color, text_size, text_wrap, line_spacing>>

\* ------------------------------------------------------ the engine: Spec
\* Any sequence of calls, at most MaxOps of them after begin (begin itself is
\* free: it resets the state).  Arguments are samples on, across and off the
\* edges of the logical screen in both orientations.
StrA == <<65>>
StrAB == <<65, 66>>
StrBad == <<200, 65>>
StrNL == <<65, NL>>
StrSp == <<65, SPACE, 66>>

RectArgs ==
    { <<-2, -2, 4, 4>>, <<1, 1, 2, 2>>, <<Hp, 0, 3, 3>>, <<0, Hp, 3, 3>>, <<1, 1, 0, 3>>, <<-3, 0, 2, -1>> }
LineArgs == { <<-1, 1, Wp, 1>>, <<1, Wp, 1, -1>>, <<-1, -2, Hp, Wp>>, <<Wp, 0, 0, 2>> }
CircleArgs == { <<2, 2, 2>>, <<0, 0, 1>>, <<Hp, Hp, MaxRadius>>, <<1, 1, 0>> }
CharArgs == { <<0, 0, 65, 1>>, <<-3, -4, 66, 1>>, <<-2, -2, 65, 2>>, <<0, 0, 200, 1>> }
TextArgs == { <<-6, -3, StrAB, 1>>, <<0, 0, StrNL, 1>>, <<-9, -9, StrBad, 2>> }
WrapArgs == { <<-4, -4, 16, StrSp, 1>>, <<0, -6, 8, StrAB, 1>>, <<-20, -20, 16, StrSp, 2>> }
PrintArgs == { StrA, StrAB, StrNL, StrBad }
CursorArgs == { <<-3, -2>>, <<2, 1>> }
AreaArgs == { <<2, 1, 3, 2>>, <<-8, -8, 16, 16>> }
ColorArgs == { <<COLOR_RED, COLOR_WHITE>>, <<COLOR_RED, COLOR_RED>> }

\* ------------------------------------------------ the demo application
\* drawCurrentSceneAndUpdateDisplay() for the scene and rotation index
\* loop() or setup() has just set.  The rotation is put back to ROTATION_0
\* when the previous scene drawn was the rotation scene and this one is
\* not; the rotation scene calls setRotation(demoRotations[index]); every
\* scene then clears the screen to black.  What a scene paints over the
\* cleared screen and the text settings it makes on the way are left out:
\* these are calls of the drawing and text functions modelled above, with
\* coordinates of the 800 x 480 panel, and none of them is setRotation.
DrawSceneWith(scene, index, rot, call) ==
    LET drawn == IF scene \in 0 .. 4 THEN scene ELSE 0
        dim   == RotatedSize(rot, LCD_H_RES, LCD_V_RES)
        setRotationCalled == drawn = 3 \/ rot # current_rotation
    IN  /\ frame_buffer = "buf"
        /\ currentScene' = drawn
        /\ currentRotationDemoIndex' = index
        /\ interactiveTargetsInitialized' = (drawn = 4)
        /\ previousSceneForRotationReset' = drawn
        /\ current_rotation' = rot
        /\ display_width' = dim[1]
        /\ display_height' = dim[2]
        /\ text_area_w' = IF setRotationCalled THEN dim[1] ELSE text_area_w
        /\ text_area_h' = IF setRotationCalled THEN dim[2] ELSE text_area_h
        /\ \E d \in {clear(COLOR_BLACK)'} :
               /\ fb' = [i \in Cells |-> IF i \in DOMAIN d.pm THEN d.pm[i] ELSE fb[i]]
               /\ writes' = d.log
        /\ last' = [call EXCEPT !.scene = drawn, !.rotation = rot]
        /\ UNCHANGED <<frame_buffer, cursor_x, cursor_y, text_color, text_bg_color, text_size,
                       text_wrap, text_area_x, text_area_y, line_spacing>>

\* mutant: the rotation is not put back when the rotation scene is left
drawCurrentSceneAndUpdateDisplay_NoReset(scene, index, call) ==
    LET leaving == previousSceneForRotationReset = 3 /\ scene # 3
        index1  == IF leaving THEN 0 ELSE index
    IN  DrawSceneWith(scene, index1,
                      IF scene = 3 THEN demoRotations[index1 + 1] ELSE current_rotation, call)

drawCurrentSceneAndUpdateDisplay(scene, index, call) ==
    LET leaving == previousSceneForRotationReset = 3 /\ scene # 3
        index1  == IF leaving THEN 0 ELSE index
        rot1    == IF leaving THEN ROTATION_0 ELSE current_rotation
    IN  DrawSceneWith(scene, index1, IF scene = 3 THEN demoRotations[index1 + 1] ELSE rot1, call)

\* setup(): begin(frame_buffer), setRotation(ROTATION_0), setTextWrap(true),
\* setLineSpacing(2), then the first scene is drawn and the time of the
\* last interaction is taken
Setup ==
    /\ frame_buffer' = "buf"
    /\ currentScene' = currentScene
    /\ currentRotationDemoIndex' = 0
    /\ interactiveTargetsInitialized' = (currentScene = 4)
    /\ previousSceneForRotationReset' = currentScene
    /\ current_rotation' = ROTATION_0
    /\ display_width' = LCD_H_RES
    /\ display_height' = LCD_V_RES
    /\ cursor_x' = 0
    /\ cursor_y' = 0
    /\ text_color' = COLOR_WHITE
    /\ text_bg_color' = COLOR_BLACK
    /\ text_size' = 1
    /\ text_wrap' = TRUE
    /\ text_area_x' = 0
    /\ text_area_y' = 0
    /\ text_area_w' = LCD_H_RES
    /\ text_area_h' = LCD_V_RES
    /\ line_spacing' = 2
    /\ \E d \in {clear(COLOR_BLACK)'} :
           /\ fb' = [i \in Cells |-> IF i \in DOMAIN d.pm THEN d.pm[i] ELSE fb[i]]
           /\ writes' = d.log
    /\ elapsed' = 0
    /\ last' = [op |-> "drawScene", scene |-> currentScene, rotation |-> ROTATION_0,
                from |-> -1, accepted |-> FALSE]
    /\ UNCHANGED nops

\* one pass of loop(): justTouched is touch_touched(), passed the time since
\* the previous pass took (at least the delay(30) that ends it), targetHit
\* whether the touch point lies in one of the interactive scene's circles
Loop(justTouched, passed, targetHit) ==
    LET now      == Min(elapsed + passed, INTERACTION_DEBOUNCE + 1)
        accepted == justTouched /\ now > INTERACTION_DEBOUNCE
        index1   == IF accepted /\ currentScene = 3 THEN currentRotationDemoIndex + 1
                    ELSE currentRotationDemoIndex
        advance  == accepted /\ (IF currentScene = 3 THEN index1 >= MAX_ROTATION_DEMOS
                                 ELSE IF currentScene = 4 THEN ~targetHit ELSE TRUE)
        scene1   == IF advance THEN (currentScene + 1) % MAX_SCENES ELSE currentScene
        index2   == IF index1 >= MAX_ROTATION_DEMOS THEN 0 ELSE index1
        sceneNeedsRedraw == accepted \/ (justTouched /\ currentScene = 4)
    IN  /\ last.op \in {"drawScene", "loop"}
        /\ passed >= LOOP_DELAY
        /\ elapsed' = IF accepted THEN 0 ELSE now
        /\ nops' = nops
        /\ IF sceneNeedsRedraw
           THEN drawCurrentSceneAndUpdateDisplay(scene1, index2,
                    [op |-> "drawScene", scene |-> scene1, rotation |-> current_rotation,
                     from |-> currentScene, accepted |-> accepted])
           ELSE /\ last' = [op |-> "loop"]
                /\ writes' = {}
                /\ UNCHANGED <<frame_buffer, fb, display, textState, currentScene,
                               currentRotationDemoIndex, previousSceneForRotationReset,
                               interactiveTargetsInitialized>>

Bounded == nops < MaxOps

Next ==
    \/ Begin
    \/ Bounded /\ \E r \in ScreenRotation : SetRotation(r)
    \/ Bounded /\ \E a \in CursorArgs : SetCursor(a[1], a[2])
    \/ Bounded /\ \E a \in ColorArgs : SetTextColor(a[1], a[2])
    \/ Bounded /\ \E z \in {0, 2, 11} : SetTextSize(z)
    \/ Bounded /\ \E w \in BOOLEAN : SetTextWrap(w)
    \/ Bounded /\ \E g \in {-1, 0, 21} : SetLineSpacing(g)
    \/ Bounded /\ \E a \in AreaArgs : SetTextArea(a[1], a[2], a[3], a[4])
    \/ Bounded /\ \E a \in RectArgs : FillRect(a[1], a[2], a[3], a[4], COLOR_RED)
    \/ Bounded /\ \E c \in {COLOR_BLACK, COLOR_RED} : Clear(c)
    \/ Bounded /\ \E a \in LineArgs : Line(a[1], a[2], a[3], a[4], COLOR_WHITE)
    \/ Bounded /\ \E a \in RectArgs : Rect(a[1], a[2], a[3], a[4], COLOR_RED)
    \/ Bounded /\ \E a \in CircleArgs : Circle(a[1], a[2], a[3], COLOR_WHITE)
    \/ Bounded /\ \E a \in CircleArgs : FillCircle(a[1], a[2], a[3], COLOR_RED)
    \/ Bounded /\ \E a \in CharArgs, k \in ColorArgs : DrawChar(a[1], a[2], a[3], k[1], k[2], a[4])
    \/ Bounded /\ \E a \in TextArgs : Text(a[1], a[2], a[3], COLOR_RED, COLOR_WHITE, a[4])
    \/ Bounded /\ \E a \in WrapArgs : PrintWrapped(a[1], a[2], a[3], a[4], COLOR_RED, a[5])
    \/ Bounded /\ \E str \in PrintArgs : PrintString(str)
    \/ Bounded /\ PrintlnString(StrA)
    \/ Bounded /\ ClearTextArea

Spec == Init /\ [][Next]_vars

\* ------------------------------------- one primitive call, every argument
\* begin, one setRotation, then a single primitive call whose arguments range
\* over every position on, across and off the screen.
Coord == -2 .. (Wp + 1)
Size == -1 .. (Wp + 2)
Radius == -1 .. MaxRadius

Started == last.op = "init" /\ Begin
Rotated == last.op = "begin" /\ \E r \in ScreenRotation : SetRotation(r)
Ready == last.op = "setRotation"

NextRect ==
    \/ Started
    \/ Rotated
    \/ Ready /\ \E x \in Coord, y \in Coord, w \in Size, h \in Size : FillRect(x, y, w, h, COLOR_RED)
    \/ Ready /\ \E c \in Colors : Clear(c)

SpecRect == Init /\ [][NextRect]_vars

NextLine ==
    \/ Started
    \/ Rotated
    \/ Ready /\ \E x0 \in Coord, y0 \in Coord, x1 \in Coord, y1 \in Coord : Line(x0, y0, x1, y1, COLOR_RED)

SpecLine == Init /\ [][NextLine]_vars

NextCircle ==
    \/ Started
    \/ Rotated
    \/ Ready /\ \E x0 \in Coord, y0 \in Coord, r \in Radius : Circle(x0, y0, r, COLOR_RED)
    \/ Ready /\ \E x0 \in Coord, y0 \in Coord, r \in Radius : FillCircle(x0, y0, r, COLOR_WHITE)

SpecCircle == Init /\ [][NextCircle]_vars

NextPrim ==
    \/ Started
    \/ Rotated
    \/ Ready /\ \E x \in Coord, y \in Coord, w \in Size, h \in Size :
                    FillRect(x, y, w, h, COLOR_RED)
    \/ Ready /\ \E x0 \in Coord, y0 \in Coord, r \in Radius : Circle(x0, y0, r, COLOR_RED)
    \/ Ready /\ \E x0 \in Coord, y0 \in Coord, r \in Radius : FillCircle(x0, y0, r, COLOR_WHITE)

SpecPrim == Init /\ [][NextPrim]_vars

\* --------------------------------------------- the cursor stream: SpecStream
\* begin, then each setter at most once in a fixed order, then one call of the
\* cursor-stream path (or one drawChar).  The text areas and cursors lie on,
\* across and off the logical screen.
StreamRank(op) ==
    CASE op = "init" -> 0
      [] op = "begin" -> 1
      [] op = "setRotation" -> 2
      [] op = "setTextArea" -> 3
      [] op = "setCursor" -> 4
      [] op = "setTextSize" -> 5
      [] op = "setTextWrap" -> 6
      [] op = "setLineSpacing" -> 7
      [] op = "setTextColor" -> 8
      [] OTHER -> 9

Before(rank) == StreamRank(last.op) >= 1 /\ StreamRank(last.op) < rank

StreamAreas == { <<-8, -8, 32, 24>>, <<-3, -2, 19, 12>> }
StreamCursors == { <<-8, -8>>, <<-3, -2>>, <<10, -8>>, <<10, 10>> }
StreamStrs == { <<65>>, <<65, 66>>, <<200>>, <<200, 65>>, <<65, 128, 66>>, <<NL>>, <<65, NL, 66>>, <<65, CR, 66>> }
StreamChars == { 0, 65, 127, 128, 200, NL, CR }

NextStream ==
    \/ Started
    \/ Before(2) /\ SetRotation(ROTATION_90)
    \/ Before(3) /\ \E a \in StreamAreas : SetTextArea(a[1], a[2], a[3], a[4])
    \/ Before(4) /\ \E a \in StreamCursors : SetCursor(a[1], a[2])
    \/ Before(5) /\ SetTextSize(2)
    \/ Before(6) /\ SetTextWrap(FALSE)
    \/ Before(7) /\ SetLineSpacing(0)
    \/ Before(8) /\ SetTextColor(COLOR_RED, COLOR_RED)
    \/ Before(9) /\ \E str \in StreamStrs : PrintString(str)
    \/ Before(9) /\ \E str \in {<<65>>, <<200, 65>>} : PrintlnString(str)
    \/ Before(9) /\ \E ch \in StreamChars : PrintChar(ch)
    \/ Before(9) /\ \E ch \in {65, 128, 255} : DrawChar(cursor_x, cursor_y, ch, text_color, text_bg_color, text_size)

SpecStream == Init /\ [][NextStream]_vars

\* ------------------------------------------------- one glyph: SpecChar
\* begin, one setRotation, then a single drawChar at positions that put the
\* glyph cell on, across and off every edge, in opaque and transparent colours.
CharX == { -20, -13, -9, -6, -3, 0, 3 }
CharY == { -19, -10, -5, -2, 0, 2 }
CharCodes == { 35, 65, 127 }
CharSizes == { 1, 2, 3 }

NextChar ==
    \/ Started
    \/ Rotated
    \/ Ready /\ \E x \in CharX, y \in CharY, c \in CharCodes, k \in ColorArgs, z \in CharSizes :
                    DrawChar(x, y, c, k[1], k[2], z)

SpecChar == Init /\ [][NextChar]_vars

\* ------------------------------------------------ word wrap: SpecWrap
\* begin, then setLineSpacing and setTextColor at most once, then at most one
\* of setTextArea / setCursor / setTextWrap, then one printWrapped or text
\* call.  The strings hold every separator, words that
\* fit, words wider than maxWidth, and words of 49 and 50 characters.
LongWord(n) == [i \in 1 .. n |-> 65]
WrapStrs ==
    { <<65, SPACE, 66>>, <<65, 66, SPACE, 67>>, <<65, NL, 66>>, <<65, TAB, 66>>, <<65, 66, 67>>,
      <<65, SPACE, SPACE, 66, 67>>, <<65, 200, CR, SPACE, 66>> }
WrapLongStrs ==
    { LongWord(WORD_BUFFER - 1), LongWord(WORD_BUFFER), LongWord(WORD_BUFFER + 1) \o <<SPACE, 66>>,
      <<66, SPACE>> \o LongWord(WORD_BUFFER + 1) }
WrapStarts == { <<-4, -12>>, <<-4, -4>>, <<0, 0>> }
WrapWidths == { 8, 16, 24 }
WrapSizes == { 1, 2 }
WrapTexts == { <<65, 66>>, <<65, NL, 66>>, <<200, 65>> }

NextWrap ==
    \/ Started
    \/ last.op = "begin" /\ SetLineSpacing(0)
    \/ last.op \in {"begin", "setLineSpacing"} /\ SetTextColor(COLOR_RED, COLOR_WHITE)
    \/ last.op \in {"begin", "setLineSpacing", "setTextColor"} /\ SetTextArea(-3, -2, 19, 12)
    \/ last.op \in {"begin", "setLineSpacing", "setTextColor"} /\ SetCursor(-3, -2)
    \/ last.op \in {"begin", "setLineSpacing", "setTextColor"} /\ SetTextWrap(FALSE)
    \/ Before(9) /\ \E a \in WrapStarts, m \in WrapWidths, str \in WrapStrs, z \in WrapSizes :
                        PrintWrapped(a[1], a[2], m, str, COLOR_RED, z)
    \/ Before(9) /\ \E str \in WrapLongStrs : PrintWrapped(-4, -4, 16, str, COLOR_RED, 1)
    \/ Before(9) /\ \E a \in WrapStarts, str \in WrapTexts, z \in WrapSizes :
                        Text(a[1], a[2], str, COLOR_RED, COLOR_WHITE, z)

SpecWrap == Init /\ [][NextWrap]_vars

\* ------------------------------------------ the demo: SpecDemo
\* setup(), then loop() passes with any touch input; a pass takes the
\* delay alone, about half the debounce time, or more than all of it
LoopTimes == { LOOP_DELAY, 250, INTERACTION_DEBOUNCE + 1 }

NextDemo ==
    \/ last.op = "init" /\ Setup
    \/ \E justTouched \in BOOLEAN, passed \in LoopTimes, targetHit \in BOOLEAN :
           Loop(justTouched, passed, targetHit)

SpecDemo == Init /\ [][NextDemo]_vars

\* --------------------------------------- chains of prints: SpecPrint
\* begin, a text area of at least one glyph cell, optionally a cursor, a
\* text size and a line spacing, then print / println / print(char) calls
\* one after another, up to MaxChain calls after begin.
PrintAreas == { <<-8, -8, 32, 24>>, <<-3, -2, 19, 12>> }
PrintCursors == { <<-3, -2>>, <<8, 0>>, <<10, 10>> }
PrintStrs == { <<65>>, <<65, 66, 67>>, <<65, NL, 66>>, <<200, CR, 65>> }
Chained == StreamRank(last.op) >= 3 /\ nops < MaxChain

NextPrint ==
    \/ Started
    \/ Before(3) /\ \E a \in PrintAreas : SetTextArea(a[1], a[2], a[3], a[4])
    \/ last.op = "setTextArea" /\ \E a \in PrintCursors : SetCursor(a[1], a[2])
    \/ last.op \in {"setTextArea", "setCursor"} /\ SetTextSize(2)
    \/ last.op \in {"setTextArea", "setCursor", "setTextSize"} /\ SetLineSpacing(0)
    \/ Chained /\ \E str \in PrintStrs : PrintString(str)
    \/ Chained /\ PrintlnString(<<65>>)
    \/ Chained /\ PrintChar(66)

SpecPrint == Init /\ [][NextPrint]_vars

\* ------------------------------------- the Bresenham loop: SpecBres
\* begin, setRotation, then one line with both coordinates different, run
\* one loop iteration at a time.  Nothing interrupts the loop, so an
\* iteration that can run does run: weak fairness on LineIter.
BresCoord == -1 .. Hp

NextBres ==
    \/ Started
    \/ Rotated
    \/ Ready /\ \E x0 \in BresCoord, y0 \in BresCoord, x1 \in BresCoord, y1 \in BresCoord :
                    LineBegin(x0, y0, x1, y1, COLOR_RED)
    \/ LineIter

SpecBres == Init /\ [][NextBres]_vars /\ WF_vars(LineIter)

\* ------------------------------------------- filled circles: SpecFill
\* begin, setRotation, then one circle or fillCircle with a radius up to
\* MaxFillRadius and a centre on or next to the panel.
FillRadius == -1 .. MaxFillRadius

NextFill ==
    \/ Started
    \/ Rotated
    \/ Ready /\ \E x0 \in Coord, y0 \in Coord, r \in FillRadius : FillCircle(x0, y0, r, COLOR_RED)
    \/ Ready /\ \E x0 \in Coord, y0 \in Coord, r \in FillRadius : Circle(x0, y0, r, COLOR_WHITE)

SpecFill == Init /\ [][NextFill]_vars

\* ------------------------------------------------ rotation: SpecRot
\* begin, optionally a fillRect (content drawn before the rotation), one
\* text-state setter, then setRotation and one drawing call.
RotRects == { <<0, 0, 2, 1>>, <<-1, 2, 4, 9>>, <<5, 3, 9, 9>> }

NextRot ==
    \/ Started
    \/ last.op = "begin" /\ \E a \in RotRects : FillRect(a[1], a[2], a[3], a[4], COLOR_WHITE)
    \/ last.op \in {"begin", "fillRect"} /\ nops <= 1 /\ SetCursor(-3, -2)
    \/ last.op \in {"begin", "fillRect"} /\ nops <= 1 /\ SetTextColor(COLOR_RED, COLOR_WHITE)
    \/ last.op \in {"begin", "fillRect"} /\ nops <= 1 /\ SetTextSize(2)
    \/ last.op \in {"begin", "fillRect"} /\ nops <= 1 /\ SetTextWrap(FALSE)
    \/ last.op \in {"begin", "fillRect"} /\ nops <= 1 /\ SetLineSpacing(0)
    \/ last.op \in {"begin", "fillRect"} /\ nops <= 1 /\ SetTextArea(1, 1, 3, 2)
    \/ last.op \notin {"init", "setRotation"} /\ nops <= 2 /\ \E r \in ScreenRotation : SetRotation(r)
    \/ last.op = "setRotation" /\ \E a \in RotRects : FillRect(a[1], a[2], a[3], a[4], COLOR_RED)
    \/ last.op = "setRotation" /\ nops <= 3 /\ \E r \in ScreenRotation : SetRotation(r)

SpecRot == Init /\ [][NextRot]_vars

\* ------------------------------------------- numeric printing: SpecNum
\* begin, optionally setCursor and setTextWrap, then one numeric print.  The
\* integers include the longest values of a 32-bit int; the floating values
\* are integer-valued (so their fraction digits are zeros): 0, 3, -2, 2^24,
\* 2^70 (exactly representable in float and double) and -(2^70).
IntSamples == { 0, 7, -42, 12345, 2147483647, -2147483647 }
UnsignedSamples == { 0, 7, 12345, 2147483647 }
TwoTo70 == <<49, 49, 56, 48, 53, 57, 49, 54, 50, 48, 55, 49, 55, 52, 49, 49, 51, 48, 51, 52, 50, 52>>
FloatSamples ==
    { [neg |-> FALSE, int |-> <<48>>], [neg |-> FALSE, int |-> <<51>>], [neg |-> TRUE, int |-> <<50>>],
      [neg |-> FALSE, int |-> DecDigits(16777216)],
      [neg |-> FALSE, int |-> TwoTo70], [neg |-> TRUE, int |-> TwoTo70] }
DecimalSamples == { 0, 2, 6, 17 }

NextNum ==
    \/ Started
    \/ Before(4) /\ \E a \in StreamCursors : SetCursor(a[1], a[2])
    \/ Before(6) /\ SetTextWrap(FALSE)
    \/ Before(9) /\ \E n \in IntSamples : PrintInt(n)
    \/ Before(9) /\ \E n \in UnsignedSamples : PrintUnsigned(n)
    \/ Before(9) /\ \E n \in IntSamples : PrintLong(n)
    \/ Before(9) /\ \E n \in UnsignedSamples : PrintUnsignedLong(n)
    \/ Before(9) /\ \E n \in FloatSamples, k \in DecimalSamples : PrintFloat(n, k)
    \/ Before(9) /\ \E n \in FloatSamples, k \in DecimalSamples : PrintDouble(n, k)

SpecNum == Init /\ [][NextNum]_vars

\* ================================================================ claims
Screen == (0 .. (display_width - 1)) \X (0 .. (display_height - 1))
Painted == {<<w[1], w[2]>> : w \in writes}

\* C1: every store of every drawing or text call goes to a cell inside the
\* buffer, and that cell is the transform of a logical point inside the
\* logical screen; this includes the unchecked scanline path of fillRect.
C1_WritesInBounds ==
    \A w \in writes :
        LET t == transformCoordinates(w[1], w[2])
        IN  /\ 0 <= w[1] /\ w[1] < display_width
            /\ 0 <= w[2] /\ w[2] < display_height
            /\ 0 <= t[1] /\ t[1] < LCD_H_RES
            /\ 0 <= t[2] /\ t[2] < LCD_V_RES
            /\ w[3] = CellOf(t)
            /\ w[3] \in Cells

\* a rotation-0 fillRect that straddles the right edge has stored scanlines
C1_Witness ==
    /\ last.op = "fillRect"
    /\ current_rotation = ROTATION_0
    /\ last.x < display_width /\ last.x + last.w > display_width
    /\ writes # {}

\* the cells a rectangle of logical points maps to, by definition: clip to
\* the logical screen, then transform
TargetCells(x, y, w, h) ==
    { CellOf(transformCoordinates(q[1], q[2])) :
        q \in (Max(x, 0) .. Min(x + w - 1, display_width - 1))
               \X (Max(y, 0) .. Min(y + h - 1, display_height - 1)) }

InRect(r, px, py) == r.x <= px /\ px < r.x + r.w /\ r.y <= py /\ py < r.y + r.h

\* the worked examples on the 800 x 480 panel at rotation 0
C2_PanelExamples ==
    /\ ClipRect(-5, -5, 20, 20, PANEL_H_RES, PANEL_V_RES) = [x |-> 0, y |-> 0, w |-> 15, h |-> 15]
    /\ InRect(ClipRect(0, 0, PANEL_H_RES, PANEL_V_RES, PANEL_H_RES, PANEL_V_RES), 50, 25)
    /\ InRect(ClipRect(0, 0, PANEL_H_RES, PANEL_V_RES, PANEL_H_RES, PANEL_V_RES), 500, 400)
    /\ InRect(ClipRect(0, 0, 100, 50, PANEL_H_RES, PANEL_V_RES), 50, 25)
    /\ ~InRect(ClipRect(0, 0, 100, 50, PANEL_H_RES, PANEL_V_RES), 500, 400)

\* C2: fillRect(x, y, w, h, C) with w > 0 and h > 0 sets to C exactly the
\* cells that are the transform of the rectangle's points inside the logical
\* screen and leaves every other cell unchanged (nothing when fully outside);
\* on the 800 x 480 panel fillRect(-5,-5,20,20) is clipped to [0,15) x [0,15).
C2_FillRectExact ==
    [][ (last'.op = "fillRect" /\ last'.w > 0 /\ last'.h > 0)
        => /\ {w[3] : w \in writes'} = TargetCells(last'.x, last'.y, last'.w, last'.h)
           /\ \A i \in Cells :
                fb'[i] = IF i \in {w[3] : w \in writes'} THEN last'.color ELSE fb[i]
           /\ C2_PanelExamples ]_vars

\* a rotated fillRect with a negative origin has painted its visible part
C2_Witness ==
    /\ last.op = "fillRect"
    /\ current_rotation = ROTATION_90
    /\ last.x < 0 /\ last.y < 0
    /\ writes # {}
    /\ Cardinality(writes) < last.w * last.h

\* C3: under each rotation and from any prior content, clear(C) leaves every
\* cell of the buffer equal to C.
C3_ClearFillsAll == last.op = "clear" => \A i \in Cells : fb[i] = last.color

\* a clear in portrait orientation
C3_Witness ==
    /\ last.op = "clear"
    /\ current_rotation = ROTATION_270
    /\ last.color = COLOR_RED
    /\ Cardinality(writes) = LCD_H_RES * LCD_V_RES

\* C4: the logical size is (Wp, Hp) at 0 / 180 degrees and (Hp, Wp) at
\* 90 / 270 degrees in every state, so its area is Wp * Hp; on the 800 x 480
\* panel rotation 90 gives 480 x 800; and only begin and setRotation change
\* the rotation or the logical size.
C4_SizeOK ==
    /\ current_rotation \in ScreenRotation
    /\ current_rotation \in {ROTATION_0, ROTATION_180}
         => display_width = LCD_H_RES /\ display_height = LCD_V_RES
    /\ current_rotation \in {ROTATION_90, ROTATION_270}
         => display_width = LCD_V_RES /\ display_height = LCD_H_RES
    /\ display_width * display_height = LCD_H_RES * LCD_V_RES
    /\ RotatedSize(ROTATION_90, PANEL_H_RES, PANEL_V_RES) = <<PANEL_V_RES, PANEL_H_RES>>
    /\ RotatedSize(ROTATION_90, PANEL_H_RES, PANEL_V_RES) = <<480, 800>>

C4_LogicalSize ==
    /\ C4_SizeOK
    /\ [][ /\ C4_SizeOK'
           /\ last'.op \notin {"begin", "setRotation"} => UNCHANGED display ]_vars

\* a text call made in portrait orientation
C4_Witness ==
    /\ last.op = "print"
    /\ current_rotation = ROTATION_270
    /\ display_width = LCD_V_RES /\ display_height = LCD_H_RES

\* C5: when setRotation returns, the text area is the full new logical
\* rectangle (0, 0, logical width, logical height).
C5_TextAreaReset ==
    last.op = "setRotation"
        => /\ text_area_x = 0 /\ text_area_y = 0
           /\ text_area_w = display_width /\ text_area_h = display_height

\* C6: begin leaves every field at its default and does not touch the
\* buffer's content.
C6_BeginDefaults ==
    [][ last'.op = "begin"
        => /\ frame_buffer' = "buf"
           /\ current_rotation' = ROTATION_0
           /\ display_width' = LCD_H_RES /\ display_height' = LCD_V_RES
           /\ cursor_x' = 0 /\ cursor_y' = 0
           /\ text_color' = COLOR_WHITE /\ text_bg_color' = COLOR_BLACK
           /\ text_size' = 1 /\ text_wrap' = TRUE /\ line_spacing' = 2
           /\ text_area_x' = 0 /\ text_area_y' = 0
           /\ text_area_w' = LCD_H_RES /\ text_area_h' = LCD_V_RES
           /\ fb' = fb ]_vars

\* begin called again after the state was changed and the buffer drawn on
C6_Witness ==
    /\ last.op = "begin"
    /\ nops = MaxOps
    /\ fb \notin InitBuffers

\* C7: a vertical line paints exactly the cells of
\* fillRect(x0, min(y0,y1), 1, |y1-y0|+1) and a horizontal line exactly those
\* of fillRect(min(x0,x1), y0, |x1-x0|+1, 1), whatever the endpoint order.
C7_AxisLineIsRect ==
    /\ (last.op = "line" /\ last.x0 = last.x1)
         => writes = fillRect(last.x0, Min(last.y0, last.y1), 1, Abs(last.y1 - last.y0) + 1, last.color).log
    /\ (last.op = "line" /\ last.y0 = last.y1)
         => writes = fillRect(Min(last.x0, last.x1), last.y0, Abs(last.x1 - last.x0) + 1, 1, last.color).log
    /\ (last.op = "line" /\ (last.x0 = last.x1 \/ last.y0 = last.y1))
         => \A w \in writes : fb[w[3]] = last.color

\* a vertical line given bottom-up, drawn on the flipped screen
C7_Witness ==
    /\ last.op = "line"
    /\ last.x0 = last.x1 /\ last.y0 > last.y1
    /\ current_rotation = ROTATION_180
    /\ Cardinality(writes) >= 3

\* C8: for x0 # x1 and y0 # y1 the points the Bresenham loop emits start at
\* (x0,y0), end at (x1,y1), are pairwise different, number
\* max(|x1-x0|, |y1-y0|) + 1, and consecutive points differ by at most 1 in
\* each coordinate.
C8_Bresenham ==
    (last.op = "line" /\ last.x0 # last.x1 /\ last.y0 # last.y1)
        => LET pts == BresPoints(last.x0, last.y0, last.x1, last.y1)
           IN  /\ pts[1] = <<last.x0, last.y0>>
               /\ pts[Len(pts)] = <<last.x1, last.y1>>
               /\ \A i, j \in DOMAIN pts : i # j => pts[i] # pts[j]
               /\ Len(pts) = Max(Abs(last.x1 - last.x0), Abs(last.y1 - last.y0)) + 1
               /\ \A i \in 1 .. (Len(pts) - 1) :
                     /\ Abs(pts[i + 1][1] - pts[i][1]) <= 1
                     /\ Abs(pts[i + 1][2] - pts[i][2]) <= 1
               /\ Painted = {q \in {pts[i] : i \in DOMAIN pts} : q \in Screen}

\* a steep line drawn right to left
C8_Witness ==
    /\ last.op = "line"
    /\ last.x0 - last.x1 = 2 /\ last.y1 - last.y0 = 5
    /\ Cardinality(writes) >= 4

\* offsets of a point set from a centre, and their eight reflections
Offsets(pts, x0, y0) == {<<q[1] - x0, q[2] - y0>> : q \in pts}
Reflections(o) ==
    { <<o[1], o[2]>>, <<-o[1], o[2]>>, <<o[1], -o[2]>>, <<-o[1], -o[2]>>,
      <<o[2], o[1]>>, <<-o[2], o[1]>>, <<o[2], -o[1]>>, <<-o[2], -o[1]>> }
Symmetric(offs) == \A o \in offs : Reflections(o) \subseteq offs
CircleInside(x0, y0, r) ==
    x0 - r >= 0 /\ x0 + r < display_width /\ y0 - r >= 0 /\ y0 + r < display_height

\* C9 as stated: for every centre and r > 0 the set of painted pixels is
\* symmetric under the eight reflections about the centre.
C9_PaintedSymmetric ==
    (last.op = "circle" /\ last.radius > 0) => Symmetric(Offsets(Painted, last.x0, last.y0))

\* C9 amended: for every centre and r > 0 the set of points circle() hands to
\* pixel() is symmetric under the eight reflections; the painted pixels are
\* those of them inside the logical screen, hence a symmetric set whenever
\* the circle lies fully inside the logical screen.
C9_EmittedSymmetric ==
    (last.op = "circle" /\ last.radius > 0)
        => /\ Symmetric(Offsets(CirclePoints(last.x0, last.y0, last.radius), last.x0, last.y0))
           /\ Painted = CirclePoints(last.x0, last.y0, last.radius) \cap Screen
           /\ CircleInside(last.x0, last.y0, last.radius)
                => /\ Painted = CirclePoints(last.x0, last.y0, last.radius)
                   /\ Symmetric(Offsets(Painted, last.x0, last.y0))

\* a circle of radius 2 fully inside the portrait screen
C9_Witness ==
    /\ last.op = "circle"
    /\ last.radius = 2
    /\ current_rotation = ROTATION_90
    /\ CircleInside(last.x0, last.y0, last.radius)
    /\ Cardinality(writes) = 12

\* C10: fillRect with w <= 0 or h <= 0, and circle and fillCircle with
\* radius <= 0, store nothing and leave the buffer and every field unchanged.
Degenerate(call) ==
    \/ call.op = "fillRect" /\ (call.w <= 0 \/ call.h <= 0)
    \/ call.op \in {"circle", "fillCircle"} /\ call.radius <= 0

C10_DegenerateNoOp ==
    [][ Degenerate(last') => writes' = {} /\ UNCHANGED <<frame_buffer, fb, display, textState>> ]_vars

\* a fillCircle of radius 0 centred on the screen
C10_Witness ==
    /\ last.op = "fillCircle"
    /\ last.radius = 0
    /\ last.x0 = 2 /\ last.y0 = 2
    /\ current_rotation = ROTATION_180

\* C11: rect(x, y, w, h, C) with w <= 0 or h <= 0 is a no-op: at every
\* position, on or off the screen, it stores nothing and leaves the buffer
\* unchanged.
C11_RectDegenerateNoOp ==
    [][ (last'.op = "rect" /\ (last'.w <= 0 \/ last'.h <= 0)) => writes' = {} /\ fb' = fb ]_vars

\* the buffer after the stores of a draw effect d
After(d) == [i \in Cells |-> IF i \in DOMAIN d.pm THEN d.pm[i] ELSE fb[i]]

IsAscii(ch) == ch >= 0 /\ ch <= 127

\* C12: a character code outside 0..127 has no effect: drawChar stores
\* nothing, print(char) leaves buffer, cursor and text state unchanged, and
\* print(string) ends in the state that printing the string without those
\* characters ends in (so the characters after a rejected one are still printed).
C12_NonAsciiRejected ==
    [][ /\ (last'.op \in {"drawChar", "printChar"} /\ ~IsAscii(last'.c))
            => writes' = {} /\ UNCHANGED <<fb, display, textState>>
        /\ (last'.op = "print" /\ \E k \in DOMAIN last'.str : ~IsAscii(last'.str[k]))
            => \A r \in {print(Cursor, SelectSeq(last'.str, IsAscii))} :
                   /\ cursor_x' = r.x /\ cursor_y' = r.y
                   /\ writes' = r.d.log
                   /\ fb' = After(r.d)
                   /\ UNCHANGED <<display, text_color, text_bg_color, text_size, text_wrap,
                                  text_area_x, text_area_y, text_area_w, text_area_h, line_spacing>>
      ]_vars

\* print("\xC8" "A") has drawn the A at the old cursor and moved on by one glyph
C12_Witness ==
    /\ last.op = "print"
    /\ last.str = <<200, 65>>
    /\ text_wrap = FALSE
    /\ cursor_x = 5 /\ cursor_y = -2
    /\ writes # {}

Printable(ch) == IsAscii(ch) /\ ch # NL /\ ch # CR

\* C14: print of n printable characters at size s from cursor (cx, cy) leaves
\* the cursor at (cx + n*8*s, cy) when wrap is disabled or
\* cx + (n+1)*8*s <= right edge of the text area; print("AB") at size 1 from
\* (10, 10) leaves it at (26, 10).
C14_CursorAdvance ==
    [][ ( /\ last'.op = "print"
          /\ \A k \in DOMAIN last'.str : Printable(last'.str[k])
          /\ \/ ~text_wrap
             \/ cursor_x + (Len(last'.str) + 1) * 8 * text_size <= text_area_x + text_area_w )
        => /\ cursor_x' = cursor_x + Len(last'.str) * 8 * text_size
           /\ cursor_y' = cursor_y
           /\ (last'.str = <<65, 66>> /\ text_size = 1 /\ cursor_x = 10 /\ cursor_y = 10)
                => (cursor_x' = 26 /\ cursor_y' = 10)
      ]_vars

\* print("AB") from (10, 10) at size 1 has run
C14_Witness ==
    /\ last.op = "print"
    /\ last.str = <<65, 66>>
    /\ text_size = 1
    /\ cursor_x = 26 /\ cursor_y = 10

\* C15: a newline given to print sets cursor x to the left edge of the text
\* area and adds size*8 + line_spacing to cursor y; if then
\* cursor y + size*8 > text_area_y + text_area_h, the visible part of the text
\* area is filled with the text background colour and the cursor is set to
\* the area's top-left corner.  No call of the cursor stream moves existing
\* pixels: a cell it changes was stored by the call and holds the text colour
\* or the text background colour.
IsNewline(call) ==
    \/ call.op = "printChar" /\ call.c = NL
    \/ call.op = "print" /\ call.str = <<NL>>

InCell(w, x, y, wd, ht) == x <= w[1] /\ w[1] < x + wd /\ y <= w[2] /\ w[2] < y + ht

C16_Advance ==
    [][ /\ (last'.op = "printChar" /\ Printable(last'.c))
            => LET nx  == cursor_x + text_size * 8
                   brk == text_wrap /\ nx + text_size * 8 > text_area_x + text_area_w
                   ny  == cursor_y + text_size * 8 + line_spacing
               IN  IF brk
                   THEN /\ cursor_x' = text_area_x
                        /\ cursor_y' = IF ny + text_size * 8 > text_area_y + text_area_h
                                       THEN text_area_y ELSE ny
                   ELSE /\ cursor_x' = nx /\ cursor_y' = cursor_y
                        /\ \A w \in writes' : InCell(w, cursor_x, cursor_y, text_size * 8, text_size * 8)
        /\ ( /\ last'.op \in {"print", "printChar"}
             /\ ~text_wrap
             /\ last'.op = "printChar" => Printable(last'.c)
             /\ last'.op = "print" => \A k \in DOMAIN last'.str : Printable(last'.str[k]) )
            => /\ cursor_y' = cursor_y
               /\ \A w \in writes' : InCell(w, cursor_x, cursor_y, cursor_x' - cursor_x, text_size * 8)
      ]_vars

\* an 'A' printed at the end of a line with wrap enabled: the cursor went to
\* the start of the next line and the text area was not cleared
C16_Witness ==
    /\ last.op = "printChar" /\ last.c = 65
    /\ text_wrap /\ text_size = 1 /\ line_spacing = 2
    /\ <<text_area_x, text_area_y, text_area_w, text_area_h>> = <<-8, -8, 32, 24>>
    /\ cursor_x = -8 /\ cursor_y = 2
    /\ writes = {}

\* C17: text_size is in 1..10 and line_spacing in 0..20 in every state, and
\* setTextSize with a size outside 1..10 and setLineSpacing with a spacing
\* outside 0..20 change nothing of the engine state.
C17_RangesOK == text_size \in 1 .. 10 /\ line_spacing \in 0 .. 20

C17_Rejected(call) ==
    \/ call.op = "setTextSize" /\ call.size \notin 1 .. 10
    \/ call.op = "setLineSpacing" /\ call.spacing \notin 0 .. 20

C17_SizeAndSpacing ==
    /\ C17_RangesOK
    /\ [][ /\ C17_RangesOK'
           /\ C17_Rejected(last') => UNCHANGED <<frame_buffer, fb, display, textState>> ]_vars

\* setTextSize(11) after setTextSize(2): the size is still 2
C17_Witness ==
    /\ last.op = "setTextSize"
    /\ last.size = 11
    /\ text_size = 2

\* C18: of the words printWrapped hands to text(), each non-empty word whose
\* width len*size*8 is at most maxWidth lies within [x, x + maxWidth); a word
\* that reaches past x + maxWidth is wider than maxWidth and starts at x; and
\* every store of the call lies in the box of one word, whose glyphs all sit
\* on the word's line [y, y + size*8): no word is split.
C18_WordsFit ==
    [][ last'.op = "printWrapped"
        => \A g \in {last'} :
           \A run \in {printWrappedRun(g.x, g.y, g.maxWidth, g.str, g.color, g.size)} :
             /\ \A k \in DOMAIN run.words :
                  LET wd    == run.words[k]
                      width == Len(wd.word) * g.size * 8
                  IN  Len(wd.word) > 0 =>
                        /\ width <= g.maxWidth => (g.x <= wd.x /\ wd.x + width <= g.x + g.maxWidth)
                        /\ wd.x + width > g.x + g.maxWidth => (width > g.maxWidth /\ wd.x = g.x)
             /\ \A w \in writes' :
                  \E k \in DOMAIN run.words :
                     InCell(w, run.words[k].x, run.words[k].y,
                            Len(run.words[k].word) * g.size * 8, g.size * 8)
      ]_vars

\* "A B" with room for one glyph per line: B went to the second line, which
\* crosses the top of the screen, and was painted there
C18_Witness ==
    /\ last.op = "printWrapped"
    /\ last.str = <<65, SPACE, 66>>
    /\ last.maxWidth = 8 /\ last.size = 1
    /\ last.x = -4 /\ last.y = -12
    /\ line_spacing = 2
    /\ writes # {}
    /\ \A w \in writes : w[2] >= 0 /\ InCell(w, -4, -2, 8, 8)

\* C19: printWrapped never stores outside word_buffer (indices 0 .. 49, the
\* terminator included), whatever the input, also when the last word is
\* longer than the buffer.
C19_WordBufferBounded == last.op = "printWrapped" => last.high < WORD_BUFFER

\* C20: printWrapped and text change none of cursor, text area, wrap flag,
\* text colours, text size and line spacing, and what they store does not
\* depend on the cursor, the wrap flag or the text area: a setCursor,
\* setTextWrap or setTextArea call leaves the stores of every printWrapped
\* and text call as they were before it.
C20_CursorIndependent ==
    [][ /\ last'.op \in {"printWrapped", "text"} => UNCHANGED textState
        /\ last'.op \in {"setCursor", "setTextWrap", "setTextArea"}
            => /\ \A a \in WrapStarts, m \in WrapWidths, str \in WrapStrs :
                    printWrapped(a[1], a[2], m, str, COLOR_RED, 1)'
                        = printWrapped(a[1], a[2], m, str, COLOR_RED, 1)
               /\ \A a \in WrapStarts, str \in WrapTexts, z \in WrapSizes :
                    text(a[1], a[2], str, COLOR_RED, COLOR_WHITE, z)'
                        = text(a[1], a[2], str, COLOR_RED, COLOR_WHITE, z)
      ]_vars

\* a printWrapped that painted pixels after the cursor had been moved away
\* from its default: the cursor is where setCursor put it
C20_Witness ==
    /\ last.op = "printWrapped"
    /\ writes # {}
    /\ cursor_x = -3 /\ cursor_y = -2
    /\ text_bg_color = COLOR_WHITE
    /\ line_spacing = 0

\* C21: the numeric print overloads never store more bytes (terminator
\* included) than their formatting buffer holds, nor more than the format
\* array holds.
NumericOps == {"printInt", "printUnsigned", "printLong", "printUnsignedLong", "printFloat", "printDouble"}
C21_BuffersBounded ==
    last.op \in NumericOps => last.written <= last.capacity /\ last.fmtWritten <= last.fmtCapacity

\* C24: text(x, y, str, ...) paints the same pixels as text() called on str
\* with every character outside 0..127 removed.
C24_TextIgnoresNonAscii ==
    [][ last'.op = "text"
            => \A d \in {text(last'.x, last'.y, SelectSeq(last'.str, IsAscii),
                              last'.color, last'.bg, last'.size)} :
                   writes' = d.log /\ fb' = After(d)
      ]_vars

\* C22: setRotation(r) leaves every buffer cell, the cursor, the text
\* colours, the text size, the wrap flag, the line spacing and the text area
\* origin unchanged; it sets the rotation, the logical size and the text area
\* size.  The drawing call right after it stores under r: fillRect writes
\* the r-transform of the rectangle's points inside the r-rotated screen.
C22_SetRotationFrame ==
    [][ /\ last'.op = "setRotation"
            => /\ UNCHANGED <<frame_buffer, fb, cursor_x, cursor_y, text_color, text_bg_color,
                              text_size, text_wrap, line_spacing, text_area_x, text_area_y>>
               /\ current_rotation' = last'.rotation
               /\ <<display_width', display_height'>> = RotatedSize(last'.rotation, LCD_H_RES, LCD_V_RES)
               /\ <<text_area_w', text_area_h'>> = <<display_width', display_height'>>
        /\ (last.op = "setRotation" /\ last'.op = "fillRect")
            => \A dim \in {RotatedSize(last.rotation, LCD_H_RES, LCD_V_RES)} :
                 {w[3] : w \in writes'} =
                   { CellOf(TransformXY(last.rotation, px, py, LCD_H_RES, LCD_V_RES)) :
                       px \in (last'.x .. (last'.x + last'.w - 1)) \cap (0 .. (dim[1] - 1)),
                       py \in (last'.y .. (last'.y + last'.h - 1)) \cap (0 .. (dim[2] - 1)) }
      ]_vars

\* a rotation to portrait after content was drawn and the cursor was moved:
\* the content is still where it was stored and the cursor where it was put
C22_Witness ==
    /\ last.op = "setRotation"
    /\ last.rotation = ROTATION_90
    /\ cursor_x = -3 /\ cursor_y = -2
    /\ fb[0] = COLOR_WHITE /\ fb[1] = COLOR_WHITE /\ fb[2] = COLOR_BLACK

\* C23: on the 800 x 480 panel the 90-degree transform followed by the
\* 270-degree transform, and the 270-degree transform followed by the
\* 90-degree transform, move every point: neither composition is the
\* identity anywhere.  On the model panel, a point stored under 90 (270)
\* degrees does not come back to its logical position when the 270 (90)
\* degree transform is applied to the physical position it was stored at.
PanelSamples == {k * 20 : k \in 0 .. 39} \cup {479, 799}
Compose(first, second, x, y, hres, vres) ==
    TransformXY(second, TransformXY(first, x, y, hres, vres)[1],
                        TransformXY(first, x, y, hres, vres)[2], hres, vres)
C23_PanelNotInverse ==
    \A x \in PanelSamples, y \in PanelSamples :
        /\ Compose(ROTATION_90, ROTATION_270, x, y, PANEL_H_RES, PANEL_V_RES) # <<x, y>>
        /\ Compose(ROTATION_270, ROTATION_90, x, y, PANEL_H_RES, PANEL_V_RES) # <<x, y>>
        /\ Compose(ROTATION_90, ROTATION_270, x, y, PANEL_H_RES, PANEL_V_RES)
               = <<x, y - (PANEL_H_RES - PANEL_V_RES)>>
        /\ Compose(ROTATION_270, ROTATION_90, x, y, PANEL_H_RES, PANEL_V_RES)
               = <<x + (PANEL_H_RES - PANEL_V_RES), y>>
C23_NotInverse ==
    /\ C23_PanelNotInverse
    /\ current_rotation \in {ROTATION_90, ROTATION_270}
        => \A w \in writes :
             TransformXY(IF current_rotation = ROTATION_90 THEN ROTATION_270 ELSE ROTATION_90,
                         w[3] % LCD_H_RES, w[3] \div LCD_H_RES, LCD_H_RES, LCD_V_RES)
                 # <<w[1], w[2]>>

\* a fillRect stored under 270 degrees
C23_Witness ==
    /\ last.op = "fillRect"
    /\ current_rotation = ROTATION_270
    /\ Cardinality(writes) > 1

\* the logical points of a sequence of scanlines
SpanPoints(spans) ==
    UNION { {<<spans[k].x + col, spans[k].y>> : col \in 0 .. (spans[k].w - 1)} : k \in DOMAIN spans }

\* C25: fillCircle(x0, y0, r) with r > 0 issues 2r + 1 scanline fills, each
\* one row high, exactly one for each row y0-r .. y0+r and none for another
\* row; what it stores is the part of these scanlines inside the screen.
C25_OneSpanPerRow ==
    (last.op = "fillCircle" /\ last.radius > 0)
        => \A spans \in {FillCircleSpans(last.x0, last.y0, last.radius)} :
             /\ Len(spans) = 2 * last.radius + 1
             /\ \A k \in DOMAIN spans :
                    spans[k].h = 1 /\ spans[k].w >= 1
                    /\ spans[k].y >= last.y0 - last.radius /\ spans[k].y <= last.y0 + last.radius
             /\ \A row \in (last.y0 - last.radius) .. (last.y0 + last.radius) :
                    Cardinality({k \in DOMAIN spans : spans[k].y = row}) = 1
             /\ Painted = SpanPoints(spans) \cap Screen

\* a filled circle of radius 3, where x meets y on the rows y0-2 and y0+2
C25_Witness ==
    /\ last.op = "fillCircle"
    /\ last.radius = 3
    /\ last.x0 = 3 /\ last.y0 = 2
    /\ current_rotation = ROTATION_0
    /\ <<3, 0>> \in Painted /\ <<3, 4>> \in Painted

\* C26: in each row y0-r .. y0+r the scanline of fillCircle(x0, y0, r) runs
\* from the leftmost to the rightmost point circle(x0, y0, r) draws in that
\* row; when the circle lies inside the logical screen, fillCircle paints
\* exactly the pixels between the leftmost and rightmost outline pixel of
\* each row, all outline pixels included.
C26_FillMatchesOutline ==
    (last.op = "fillCircle" /\ last.radius > 0)
        => \A pts \in {CirclePoints(last.x0, last.y0, last.radius)},
              spans \in {FillCircleSpans(last.x0, last.y0, last.radius)} :
             /\ \A k \in DOMAIN spans :
                  \A row \in {{p[1] : p \in {q \in pts : q[2] = spans[k].y}}} :
                      /\ row # {}
                      /\ \A px \in row : px >= spans[k].x /\ px <= spans[k].x + spans[k].w - 1
                      /\ spans[k].x \in row /\ (spans[k].x + spans[k].w - 1) \in row
             /\ {p[2] : p \in pts} = {spans[k].y : k \in DOMAIN spans}
             /\ pts \subseteq Screen
                  => /\ pts \subseteq Painted
                     /\ Painted = {p \in Screen : \E a \in pts, b \in pts :
                                      a[2] = p[2] /\ b[2] = p[2] /\ a[1] <= p[1] /\ p[1] <= b[1]}

\* a filled circle of radius 2 in portrait orientation, fully on screen
C26_Witness ==
    /\ last.op = "fillCircle"
    /\ last.radius = 2
    /\ current_rotation = ROTATION_90
    /\ CirclePoints(last.x0, last.y0, last.radius) \subseteq Screen
    /\ Cardinality(writes) = 21

\* C27: once line() has entered its Bresenham loop, the loop reaches the
\* point (x1, y1) and the call ends there; until then the current point
\* stays between the two endpoints in both coordinates.
C27_LineTerminates ==
    /\ [](last.op = "lineLoop"
            => /\ last.s.x >= Min(last.x0, last.s.x1) /\ last.s.x <= Max(last.x0, last.s.x1)
               /\ last.s.y >= Min(last.y0, last.s.y1) /\ last.s.y <= Max(last.y0, last.s.y1))
    /\ (last.op = "lineLoop") ~> (last.op = "line" /\ last.end = <<last.x1, last.y1>>)

\* a shallow line drawn right to left on the flipped portrait screen has
\* ended at its endpoint
C27_Witness ==
    /\ last.op = "line"
    /\ last.x0 = 4 /\ last.y0 = 0 /\ last.x1 = 0 /\ last.y1 = 2
    /\ last.end = <<0, 2>>
    /\ current_rotation = ROTATION_270
    /\ Cardinality(writes) = 5

\* the positions of str at which printWrapped flushes a word, and the k-th
IsSeparator(ch) == ch = SPACE \/ ch = NL \/ ch = TAB
FlushAt(str) == {i \in DOMAIN str : IsSeparator(str[i]) \/ i = Len(str)}
KthFlush(str, k) == CHOOSE i \in FlushAt(str) : Cardinality({j \in FlushAt(str) : j <= i}) = k

CellInside ==
    /\ text_area_x <= cursor_x /\ cursor_x + 8 * text_size <= text_area_x + text_area_w
    /\ text_area_y <= cursor_y /\ cursor_y + 8 * text_size <= text_area_y + text_area_h

\* C29: with wrap enabled, a text area at least one glyph cell wide and high
\* and the cursor's glyph cell inside the text area, a print, println or
\* print(char) call leaves the cursor's glyph cell inside the text area and
\* stores only inside the text area; so the cell stays inside over any
\* sequence of such calls.
C29_CellStaysInside ==
    [][ ( /\ last'.op \in {"print", "println", "printChar"}
          /\ text_wrap
          /\ text_area_w >= 8 * text_size /\ text_area_h >= 8 * text_size
          /\ CellInside )
        => /\ CellInside'
           /\ \A w \in writes' : InCell(w, text_area_x, text_area_y, text_area_w, text_area_h)
      ]_vars

\* the third print in a row, in a text area two cells wide and one line
\* high: the cursor is back on the first line, inside the area
C29_Witness ==
    /\ last.op = "print"
    /\ last.str = <<65, 66, 67>>
    /\ nops = 4
    /\ text_area_w = 19
    /\ text_wrap
    /\ CellInside
    /\ writes # {}

\* C30: in the demo application currentScene stays in 0 .. 4 and
\* currentRotationDemoIndex in 0 .. 3; the rotation scene (3) is always
\* drawn under demoRotations[currentRotationDemoIndex] and every other
\* scene under ROTATION_0; an accepted touch in scene 2 draws scene 3 at 0
\* degrees, an accepted touch in scene 3 at 0, 90, 180 degrees draws scene 3
\* at 90, 180, 270 degrees, and an accepted touch at 270 degrees draws
\* scene 4 (at 0 degrees); a pass without an accepted touch changes neither
\* the scene nor the rotation.
C30_DemoScenes ==
    [][ /\ currentScene' \in 0 .. (MAX_SCENES - 1)
        /\ currentRotationDemoIndex' \in 0 .. (MAX_ROTATION_DEMOS - 1)
        /\ last'.op = "drawScene"
            => /\ last'.scene = currentScene'
               /\ currentScene' = 3 => current_rotation' = demoRotations[currentRotationDemoIndex' + 1]
               /\ currentScene' # 3 => current_rotation' = ROTATION_0
               /\ <<display_width', display_height'>>
                      = RotatedSize(current_rotation', LCD_H_RES, LCD_V_RES)
               /\ \A i \in Cells : fb'[i] = COLOR_BLACK
        /\ (last'.op = "drawScene" /\ last'.accepted)
            => /\ currentScene = 2 => (currentScene' = 3 /\ current_rotation' = ROTATION_0)
               /\ (currentScene = 3 /\ current_rotation = ROTATION_0)
                    => (currentScene' = 3 /\ current_rotation' = ROTATION_90)
               /\ (currentScene = 3 /\ current_rotation = ROTATION_90)
                    => (currentScene' = 3 /\ current_rotation' = ROTATION_180)
               /\ (currentScene = 3 /\ current_rotation = ROTATION_180)
                    => (currentScene' = 3 /\ current_rotation' = ROTATION_270)
               /\ (currentScene = 3 /\ current_rotation = ROTATION_270) => currentScene' = 4
        /\ (last'.op = "loop" \/ (last'.op = "drawScene" /\ ~last'.accepted /\ last'.from >= 0))
            => UNCHANGED <<currentScene, currentRotationDemoIndex, current_rotation>>
      ]_vars

\* the interactive scene, just drawn after the fourth accepted touch in the
\* rotation scene: the screen is back in landscape
C30_Witness ==
    /\ last.op = "drawScene"
    /\ last.from = 3 /\ last.accepted
    /\ currentScene = 4
    /\ current_rotation = ROTATION_0
    /\ display_width = LCD_H_RES
    /\ previousSceneForRotationReset = 4

====
